---- MODULE Spec2Model ----
(***************************************************************************)
(* A model of pygmars' regular-expression chunk parser                     *)
(* (src/src/pygmars/parse.py) and of the trees it builds                   *)
(* (src/src/pygmars/tree.py).                                              *)
(*                                                                         *)
(* A Python string is a sequence of one-character strings.  A tagged token *)
(* is the record [k |-> "tok", v, tag], a Tree is [k |-> "tree", label,    *)
(* ch] and a plain Python list of tokens is [k |-> "list", ch].            *)
(***************************************************************************)
EXTENDS Integers, Sequences, FiniteSets, TLC

(***************************************************************************)
(* Bounds of the model.                                                    *)
(***************************************************************************)
MaxTokens == 3
MaxLoop == 2

\* the longest string given to as_token_label
MaxLabelLen == 5

\* the most transformers applied to one ChunkString
MaxTransforms == 2

\* the longest list of tokens given to the parser of GrammarGroup
MaxRunTokens == 6

\* the most matchers of a Lexer
MaxMatchers == 2

\* the most tokens given to Lexer.lex_tokens
MaxLexTokens == 2

\* the most ParentedTree objects constructed
MaxNodes == 3

\* the most operations applied to the ParentedTree objects constructed, and
\* to an ImmutableTree
MaxTreeOps == 2

\* the most children of a tree
MaxKids == 3

(***************************************************************************)
(* String helpers (str methods of Python).                                 *)
(***************************************************************************)
Digits == {"0", "1", "2", "3", "4", "5", "6", "7", "8", "9"}

DigitVal(c) ==
  CASE c = "0" -> 0 [] c = "1" -> 1 [] c = "2" -> 2 [] c = "3" -> 3
    [] c = "4" -> 4 [] c = "5" -> 5 [] c = "6" -> 6 [] c = "7" -> 7
    [] c = "8" -> 8 [] c = "9" -> 9

Drop(s, n) == SubSeq(s, n + 1, Len(s))

Take(s, n) == SubSeq(s, 1, n)

\* s[a-1:b] of Python for 1 <= a: the end is clipped to the length
Slice(s, a, b) == SubSeq(s, a, IF b > Len(s) THEN Len(s) ELSE b)

RECURSIVE Reverse(_)
Reverse(s) == IF s = <<>> THEN <<>> ELSE Append(Reverse(Tail(s)), Head(s))

\* str.replace(c, r) for a one-character c
RECURSIVE ReplaceChar(_, _, _)
ReplaceChar(s, c, r) ==
  IF s = <<>> THEN <<>>
  ELSE (IF Head(s) = c THEN r ELSE <<Head(s)>>) \o ReplaceChar(Tail(s), c, r)

\* a variant that leaves the empty chunks in the string
KeepEmptyChunks(s) == s

\* str.replace("{}", ""): one left-to-right pass over non-overlapping finds
RECURSIVE RemoveEmptyChunks(_)
RemoveEmptyChunks(s) ==
  IF Len(s) < 2 THEN s
  ELSE IF s[1] = "{" /\ s[2] = "}" THEN RemoveEmptyChunks(Drop(s, 2))
  ELSE <<s[1]>> \o RemoveEmptyChunks(Tail(s))

\* str.strip()
RECURSIVE LStrip(_)
LStrip(s) == IF s # <<>> /\ Head(s) = " " THEN LStrip(Tail(s)) ELSE s

Strip(s) == Reverse(LStrip(Reverse(LStrip(s))))

\* index of the first c in s, 0 when there is none
RECURSIVE IndexFrom(_, _, _)
IndexFrom(s, c, i) ==
  IF i > Len(s) THEN 0 ELSE IF s[i] = c THEN i ELSE IndexFrom(s, c, i + 1)

IndexOf(s, c) == IndexFrom(s, c, 1)

\* str.count(c)
RECURSIVE Count(_, _)
Count(s, c) ==
  IF s = <<>> THEN 0 ELSE (IF Head(s) = c THEN 1 ELSE 0) + Count(Tail(s), c)

\* keep the first occurrence of every element
RECURSIVE Uniq(_)
Uniq(q) ==
  IF q = <<>> THEN <<>>
  ELSE LET r == Uniq(SubSeq(q, 1, Len(q) - 1))
           x == q[Len(q)]
       IN IF \E k \in 1..Len(r) : r[k] = x THEN r ELSE Append(r, x)

RECURSIVE Flatten(_)
Flatten(ss) == IF ss = <<>> THEN <<>> ELSE Head(ss) \o Flatten(Tail(ss))

(***************************************************************************)
(* Tag patterns: is_chunk_tag_pattern and tag_pattern2re_pattern.          *)
(***************************************************************************)
CHUNK_TAG_CHAR == <<"[", "^", "\\", "{", "\\", "}", "<", ">", "]">>

CHUNK_TAG_CHAR_REVERSED == Reverse(CHUNK_TAG_CHAR)

TagDelims == {"{", "}", "<", ">"}

\* first index at or after i that holds no digit
RECURSIVE DigitsEnd(_, _)
DigitsEnd(s, i) ==
  IF i <= Len(s) /\ s[i] \in Digits THEN DigitsEnd(s, i + 1) ELSE i

RECURSIVE NumVal(_)
NumVal(ds) ==
  IF ds = <<>> THEN 0
  ELSE 10 * NumVal(SubSeq(ds, 1, Len(ds) - 1)) + DigitVal(ds[Len(ds)])

\* the text "{digits,digits}" that starts at s[i] = "{"
ScanQuant(s, i) ==
  LET j1 == DigitsEnd(s, i + 1)
      comma == j1 <= Len(s) /\ s[j1] = ","
      j2 == IF comma THEN j1 + 1 ELSE j1
      j3 == DigitsEnd(s, j2)
  IN [m |-> SubSeq(s, i + 1, j1 - 1), comma |-> comma,
      n |-> SubSeq(s, j2, j3 - 1),
      closed |-> j3 <= Len(s) /\ s[j3] = "}", next |-> j3 + 1]

\* a variant that takes any closed pair of braces for a repeat
IsTagQuantAnyBraces(q) == q.closed

\* {\d+,?} or {\d*,\d+}
IsTagQuant(q) ==
  /\ q.closed
  /\ \/ q.m # <<>> /\ q.n = <<>>
     \/ q.comma /\ q.n # <<>>

\* first index at or after i that holds one of < > { }
RECURSIVE TagCharsEnd(_, _)
TagCharsEnd(s, i) ==
  IF i <= Len(s) /\ s[i] \notin TagDelims THEN TagCharsEnd(s, i + 1) ELSE i

\* ^((([^{}<>]|{\d+,?}|{\d*,\d+})+|<[^{}<>]+>)*)$ matched from index i
RECURSIVE ChunkTagPatternFrom(_, _)
ChunkTagPatternFrom(s, i) ==
  IF i > Len(s) THEN TRUE
  ELSE IF s[i] \notin TagDelims THEN ChunkTagPatternFrom(s, i + 1)
  ELSE IF s[i] = "{"
    THEN LET q == ScanQuant(s, i)
         IN IsTagQuant(q) /\ ChunkTagPatternFrom(s, q.next)
  ELSE IF s[i] = "<"
    THEN LET j == TagCharsEnd(s, i + 1)
         IN j > i + 1 /\ j <= Len(s) /\ s[j] = ">"
            /\ ChunkTagPatternFrom(s, j + 1)
  ELSE FALSE

is_chunk_tag_pattern(s) == ChunkTagPatternFrom(s, 1)

remove_spaces(s) == SelectSeq(s, LAMBDA c : c # " ")

\* number of backslashes at s[i], s[i+1], ...
RECURSIVE BackslashRun(_, _)
BackslashRun(s, i) ==
  IF i <= Len(s) /\ s[i] = "\\" THEN 1 + BackslashRun(s, i + 1) ELSE 0

\* re.sub(r"\.(?!\\(\\\\)*($|[^\\]))", CHUNK_TAG_CHAR_REVERSED, revrsd)
RECURSIVE SubDots(_, _)
SubDots(r, i) ==
  IF i > Len(r) THEN <<>>
  ELSE (IF r[i] = "." /\ BackslashRun(r, i + 1) % 2 = 0
          THEN CHUNK_TAG_CHAR_REVERSED ELSE <<r[i]>>) \o SubDots(r, i + 1)

\* a variant that leaves "<" and ">" as they are: a repeat after an atom
\* then repeats only its ">"
CleanUpNoGroups(tag_pattern) == remove_spaces(tag_pattern)

CleanUp(tag_pattern) ==
  ReplaceChar(ReplaceChar(remove_spaces(tag_pattern), "<", <<"(", "<", "(">>),
              ">", <<")", ">", ")">>)

\* tag_pattern2re_pattern stores the pattern it returns in the cache
Cached(c, tag_pattern, re) ==
  [ok |-> TRUE, re |-> re,
   cache |-> [x \in DOMAIN c \cup {tag_pattern} |->
                IF x = tag_pattern THEN re ELSE c[x]]]

\* tag_pattern2re_pattern after the clean up of the pattern
CheckAndReplace(c, tag_pattern, cleaned) ==
  IF ~is_chunk_tag_pattern(cleaned)
    THEN [ok |-> FALSE, re |-> cleaned, cache |-> c]
  ELSE Cached(c, tag_pattern, Reverse(SubDots(Reverse(cleaned), 1)))

\* The result of tag_pattern2re_pattern with the cache c (a function from
\* tag patterns to regular expression patterns): ok is FALSE when it raises
\* ValueError, re is the pattern returned, cache the cache afterwards.
tag_pattern2re_pattern(c, tag_pattern) ==
  IF tag_pattern \in DOMAIN c /\ c[tag_pattern] # <<>>
    THEN [ok |-> TRUE, re |-> c[tag_pattern], cache |-> c]
  ELSE CheckAndReplace(c, tag_pattern, CleanUp(tag_pattern))

(***************************************************************************)
(* re.compile: the syntax tree of a regular expression pattern.  Nodes:    *)
(*   [t |-> "chr", c]            a literal character                       *)
(*   [t |-> "set", neg, cs]      a character set [...] or [^...]           *)
(*   [t |-> "eos"]               $                                         *)
(*   [t |-> "cat", l]            a sequence of items                       *)
(*   [t |-> "alt", l]            branches separated by |                   *)
(*   [t |-> "rep", n, lo, hi, greedy]   a repeat, hi = -1 when unbounded   *)
(*   [t |-> "cap", n]            the named group (?P<chunk>...)            *)
(*   [t |-> "look", n]           the lookahead (?=...)                     *)
(* A plain group (...) is the node of its content: only the group named    *)
(* chunk is read back.  Possessive repeats (Python 3.11) and the escapes   *)
(* of letters and digits are outside the patterns modelled and are parse   *)
(* errors here.                                                            *)
(***************************************************************************)
Escapable ==
  {"{", "}", "<", ">", ".", "\\", "(", ")", "[", "]", "|", "*", "+", "?",
   "^", "$"}

\* sre_parse: "{" opens a repeat unless it is "{}" or has no closing brace
IsReQuant(q) == q.closed /\ (q.m # <<>> \/ q.comma)

QuantLo(q) == IF q.m = <<>> THEN 0 ELSE NumVal(q.m)

QuantHi(q) ==
  IF ~q.comma THEN QuantLo(q) ELSE IF q.n = <<>> THEN -1 ELSE NumVal(q.n)

IsRepeatAt(s, i) ==
  /\ i <= Len(s)
  /\ \/ s[i] \in {"*", "+", "?"}
     \/ s[i] = "{" /\ IsReQuant(ScanQuant(s, i))

\* the items of a character set from index j on, up to the closing "]"
RECURSIVE ClassItems(_, _, _, _)
ClassItems(s, j, first, acc) ==
  IF j > Len(s) THEN [ok |-> FALSE, cs |-> acc, i |-> 0]
  ELSE IF s[j] = "]" /\ j # first THEN [ok |-> TRUE, cs |-> acc, i |-> j + 1]
  ELSE IF s[j] = "\\"
    THEN IF j + 1 <= Len(s) /\ s[j + 1] \in Escapable
           THEN ClassItems(s, j + 2, first, acc \cup {s[j + 1]})
           ELSE [ok |-> FALSE, cs |-> acc, i |-> 0]
  ELSE ClassItems(s, j + 1, first, acc \cup {s[j]})

\* The parser reads the pattern left to right with a stack of open groups.
\* A frame [g, alts, items] is an open group: its kind g ("top", "plain",
\* "cap" or "look"), its finished branches and the items of the branch
\* being read.  A parse state is [ok, i, st]: i the index of the next
\* character, st the stack, ok FALSE after a syntax error.
Frame(g) == [g |-> g, alts |-> <<>>, items |-> <<>>]

CatNode(items) == [t |-> "cat", l |-> items]

\* the node of a group when it closes
CloseFrame(f) ==
  LET branches == Append(f.alts, CatNode(f.items))
      body == IF Len(branches) = 1 THEN branches[1]
              ELSE [t |-> "alt", l |-> branches]
  IN IF f.g = "cap" THEN [t |-> "cap", n |-> body]
     ELSE IF f.g = "look" THEN [t |-> "look", n |-> body]
     ELSE body

Top(st) == st[Len(st)]

\* the stack with item added to the branch being read
PushItem(st, item) ==
  [st EXCEPT ![Len(st)].items = Append(st[Len(st)].items, item)]

Fail(ps) == [ps EXCEPT !.ok = FALSE]

\* the repeat that starts at index ps.i applied to the last item read
ParseRepeat(s, ps) ==
  LET items == Top(ps.st).items
      c == s[ps.i]
      q == ScanQuant(s, ps.i)
      lo == CASE c = "*" -> 0 [] c = "+" -> 1 [] c = "?" -> 0
              [] OTHER -> QuantLo(q)
      hi == CASE c = "*" -> -1 [] c = "+" -> -1 [] c = "?" -> 1
              [] OTHER -> QuantHi(q)
      j == IF c = "{" THEN q.next ELSE ps.i + 1
      lazy == j <= Len(s) /\ s[j] = "?"
      k == IF lazy THEN j + 1 ELSE j
  IN IF items = <<>> \/ items[Len(items)].t \in {"eos", "bos"} THEN Fail(ps)
     ELSE IF hi # -1 /\ hi < lo THEN Fail(ps)
     ELSE IF IsRepeatAt(s, k) THEN Fail(ps)
     ELSE [ok |-> TRUE, i |-> k,
           st |-> [ps.st EXCEPT ![Len(ps.st)].items[Len(items)] =
                     [t |-> "rep", n |-> items[Len(items)], lo |-> lo,
                      hi |-> hi, greedy |-> ~lazy]]]

\* "(" at index ps.i opens a group
ParseOpen(s, ps) ==
  LET i == ps.i
      close == IndexFrom(s, ">", i + 4)
  IN IF Slice(s, i + 1, i + 1) # <<"?">>
       THEN [ok |-> TRUE, i |-> i + 1, st |-> Append(ps.st, Frame("plain"))]
     ELSE IF Slice(s, i + 2, i + 3) = <<"P", "<">> /\ close # 0
       THEN [ok |-> TRUE, i |-> close + 1,
             st |-> Append(ps.st,
                           Frame(IF SubSeq(s, i + 4, close - 1)
                                      = <<"c", "h", "u", "n", "k">>
                                   THEN "cap" ELSE "plain"))]
     ELSE IF Slice(s, i + 2, i + 2) = <<"=">>
       THEN [ok |-> TRUE, i |-> i + 3, st |-> Append(ps.st, Frame("look"))]
     ELSE Fail(ps)

\* one step of the parser, at the character s[ps.i]
ParseStep(s, ps) ==
  LET i == ps.i
      c == s[i]
      next == IF i + 1 <= Len(s) THEN s[i + 1] ELSE ""
      depth == Len(ps.st)
      lit == [ok |-> TRUE, i |-> i + 1,
              st |-> PushItem(ps.st, [t |-> "chr", c |-> c])]
  IN
  IF c = "(" THEN ParseOpen(s, ps)
  ELSE IF c = ")" THEN
    IF depth = 1 THEN Fail(ps)
    ELSE [ok |-> TRUE, i |-> i + 1,
          st |-> PushItem(SubSeq(ps.st, 1, depth - 1), CloseFrame(Top(ps.st)))]
  ELSE IF c = "|" THEN
    [ok |-> TRUE, i |-> i + 1,
     st |-> [ps.st EXCEPT ![depth] =
               [g |-> @.g, alts |-> Append(@.alts, CatNode(@.items)),
                items |-> <<>>]]]
  ELSE IF IsRepeatAt(s, i) THEN ParseRepeat(s, ps)
  ELSE IF c = "[" THEN
    LET neg == next = "^"
        first == IF neg THEN i + 2 ELSE i + 1
        r == ClassItems(s, first, first, {})
    IN IF r.ok
         THEN [ok |-> TRUE, i |-> r.i,
               st |-> PushItem(ps.st, [t |-> "set", neg |-> neg, cs |-> r.cs])]
       ELSE Fail(ps)
  ELSE IF c = "\\" THEN
    IF next \in Escapable
      THEN [ok |-> TRUE, i |-> i + 2,
            st |-> PushItem(ps.st, [t |-> "chr", c |-> next])]
    ELSE Fail(ps)
  ELSE IF c = "." THEN
    [ok |-> TRUE, i |-> i + 1,
     st |-> PushItem(ps.st, [t |-> "set", neg |-> TRUE, cs |-> {"\n"}])]
  ELSE IF c = "$" THEN
    [ok |-> TRUE, i |-> i + 1, st |-> PushItem(ps.st, [t |-> "eos"])]
  ELSE IF c = "^" THEN
    [ok |-> TRUE, i |-> i + 1, st |-> PushItem(ps.st, [t |-> "bos"])]
  ELSE lit

RECURSIVE ParseLoop(_, _)
ParseLoop(s, ps) ==
  IF ~ps.ok \/ ps.i > Len(s) THEN ps ELSE ParseLoop(s, ParseStep(s, ps))

\* re.compile(pattern): ok is FALSE when it raises re.error
re_compile(pattern) ==
  LET ps == ParseLoop(pattern, [ok |-> TRUE, i |-> 1, st |-> <<Frame("top")>>])
  IN IF ps.ok /\ Len(ps.st) = 1
       THEN [ok |-> TRUE, n |-> CloseFrame(ps.st[1])]
     ELSE [ok |-> FALSE, n |-> <<>>]

(***************************************************************************)
(* Matching.  A match state is [p, g]: p is the index of the next          *)
(* character to read and g the span <<first, next>> of the group chunk,    *)
(* <<>> while the group has not matched.  Ends(n, s, st) lists the states  *)
(* in which node n can end when started in st, in the order in which the   *)
(* backtracking matcher of re tries them.                                  *)
(***************************************************************************)
\* $ without re.MULTILINE: at the end, and before a newline that ends s
AtEnd(s, i) == i = Len(s) + 1 \/ (i = Len(s) /\ s[i] = "\n")

\* a repeat of one single-character node: the body reads exactly one
\* character, so the ends are the positions after lo..hi characters of the
\* run at st.p, the longest first when greedy
CharOk(n, c) == IF n.t = "chr" THEN c = n.c ELSE (c \in n.cs) # n.neg

RunLen(n, s, p) ==
  LET ks == {k \in 0..(Len(s) - p + 1) :
               \A i \in 0..(k - 1) : CharOk(n, s[p + i])}
  IN CHOOSE k \in ks : \A k2 \in ks : k2 <= k

RepeatOne(n, s, st) ==
  LET m == RunLen(n.n, s, st.p)
      top == IF n.hi = -1 \/ m < n.hi THEN m ELSE n.hi
  IN IF top < n.lo THEN <<>>
     ELSE [k \in 1..(top - n.lo + 1) |->
             [st EXCEPT !.p = IF n.greedy THEN st.p + top - k + 1
                              ELSE st.p + n.lo + k - 1]]

RECURSIVE Ends(_, _, _), CatEnds(_, _, _, _), RepEnds(_, _, _, _),
          RepMore(_, _, _, _, _)

Ends(n, s, st) ==
  CASE n.t = "chr" ->
         IF st.p <= Len(s) /\ s[st.p] = n.c
           THEN <<[st EXCEPT !.p = st.p + 1]>> ELSE <<>>
    [] n.t = "set" ->
         IF st.p <= Len(s) /\ ((s[st.p] \in n.cs) # n.neg)
           THEN <<[st EXCEPT !.p = st.p + 1]>> ELSE <<>>
    [] n.t = "eos" -> IF AtEnd(s, st.p) THEN <<st>> ELSE <<>>
    [] n.t = "bos" -> IF st.p = 1 THEN <<st>> ELSE <<>>
    [] n.t = "cat" -> CatEnds(n.l, 1, s, <<st>>)
    [] n.t = "alt" ->
         Uniq(Flatten([k \in 1..Len(n.l) |-> Ends(n.l[k], s, st)]))
    [] n.t = "rep" -> IF n.n.t \in {"chr", "set"} THEN RepeatOne(n, s, st)
                      ELSE RepEnds(n, s, st, 0)
    [] n.t = "cap" ->
         LET r == Ends(n.n, s, st)
         IN [k \in 1..Len(r) |-> [p |-> r[k].p, g |-> <<st.p, r[k].p>>]]
    [] n.t = "look" ->
         LET r == Ends(n.n, s, st)
         IN IF r = <<>> THEN <<>> ELSE <<[p |-> st.p, g |-> r[1].g]>>

CatEnds(l, k, s, sts) ==
  IF k > Len(l) THEN sts
  ELSE CatEnds(l, k + 1, s,
               Uniq(Flatten([j \in 1..Len(sts) |-> Ends(l[k], s, sts[j])])))

\* an iteration that reads nothing ends the repeat once lo iterations are done
RepJoin(n, st, cnt, more) ==
  Uniq(IF n.greedy
         THEN more \o (IF cnt >= n.lo THEN <<st>> ELSE <<>>)
         ELSE (IF cnt >= n.lo THEN <<st>> ELSE <<>>) \o more)

RepMore(n, s, st, cnt, body) ==
  RepJoin(n, st, cnt,
          Flatten([j \in 1..Len(body) |->
            IF body[j].p > st.p \/ cnt < n.lo
              THEN RepEnds(n, s, body[j], cnt + 1) ELSE <<body[j]>>]))

RepEnds(n, s, st, cnt) ==
  RepMore(n, s, st, cnt,
          IF n.hi = -1 \/ cnt < n.hi THEN Ends(n.n, s, st) ELSE <<>>)

\* the first match of the compiled pattern rx that starts at index q, as
\* [found, e, g]: the index after the match and the span of the group chunk
MatchAt(rx, s, q, must_advance) ==
  LET r == Ends(rx, s, [p |-> q, g |-> <<>>])
      ok == SelectSeq(r, LAMBDA st : ~must_advance \/ st.p > q)
  IN IF ok = <<>> THEN [found |-> FALSE, e |-> q, g |-> <<>>]
     ELSE [found |-> TRUE, e |-> ok[1].p, g |-> ok[1].g]

\* re.sub(regexp, "{\g<chunk>}", s) from index pos on: matches are looked
\* for left to right; after an empty match the next one at that index has
\* to read something
Found(rx, s, pos, q, must_advance) ==
  MatchAt(rx, s, q, must_advance /\ q = pos).found

RECURSIVE SubFrom(_, _, _, _)

SubMatch(rx, s, pos, q, m) ==
  SubSeq(s, pos, q - 1) \o <<"{">>
  \o (IF m.g = <<>> THEN <<>> ELSE SubSeq(s, m.g[1], m.g[2] - 1))
  \o <<"}">> \o SubFrom(rx, s, m.e, m.e = q)

SubAt(rx, s, pos, q, must_advance) ==
  SubMatch(rx, s, pos, q, MatchAt(rx, s, q, must_advance /\ q = pos))

SubFrom(rx, s, pos, must_advance) ==
  IF \A q \in pos..(Len(s) + 1) : ~Found(rx, s, pos, q, must_advance)
    THEN Drop(s, pos - 1)
  ELSE SubAt(rx, s, pos,
             CHOOSE q \in pos..(Len(s) + 1) :
               /\ Found(rx, s, pos, q, must_advance)
               /\ \A r \in pos..(q - 1) : ~Found(rx, s, pos, r, must_advance),
             must_advance)

re_sub(rx, s) == SubFrom(rx, s, 1, FALSE)

(***************************************************************************)
(* ChunkRule and RegexpChunkRule.fromstring.                               *)
(***************************************************************************)
IN_STRIP_PATTERN ==
  <<"(", "?", "=", "[", "^", "\\", "}", "]", "*",
    "(", "\\", "{", "|", "$", ")", ")">>

ChunkGroupOpen == <<"(", "?", "P", "<", "c", "h", "u", "n", "k", ">">>

ChunkRegexp(re) == ChunkGroupOpen \o re \o <<")">> \o IN_STRIP_PATTERN

\* RegexpChunkRule.__init__ with the regular expression compiled
RegexpChunkRule(tag_pattern, descr, tp, rx) ==
  IF ~rx.ok THEN [ok |-> FALSE, err |-> "re.error", cache |-> tp.cache]
  ELSE [ok |-> TRUE, cache |-> tp.cache,
        rule |-> [pattern |-> tag_pattern, regexp |-> rx.n,
                  regexp_pattern |-> ChunkRegexp(tp.re), descr |-> descr]]

\* ChunkRule.__init__ after tag_pattern2re_pattern
ChunkRuleOf(tag_pattern, descr, tp) ==
  IF ~tp.ok THEN [ok |-> FALSE, err |-> "ValueError", cache |-> tp.cache]
  ELSE RegexpChunkRule(tag_pattern, descr, tp, re_compile(ChunkRegexp(tp.re)))

\* ChunkRule(tag_pattern, descr) with the pattern cache c: ok is FALSE when
\* the constructor raises (ValueError for a bad tag pattern, re.error for a
\* regular expression that does not compile)
ChunkRule(c, tag_pattern, descr) ==
  ChunkRuleOf(tag_pattern, descr, tag_pattern2re_pattern(c, tag_pattern))

(***************************************************************************)
(* Tree (tree.py).                                                         *)
(***************************************************************************)
Tree(label, children) == [k |-> "tree", label |-> label, ch |-> children]

Token(v, tag) == [k |-> "tok", v |-> v, tag |-> tag]

IsTree(x) == x.k = "tree"

RECURSIVE leaves(_)
leaves(t) ==
  Flatten([i \in 1..Len(t.ch) |->
             IF IsTree(t.ch[i]) THEN leaves(t.ch[i]) ELSE <<t.ch[i]>>])

SeqMax(q) ==
  IF q = <<>> THEN 0
  ELSE CHOOSE m \in {q[i] : i \in 1..Len(q)} : \A i \in 1..Len(q) : q[i] <= m

RECURSIVE height(_)
height(t) ==
  1 + SeqMax([i \in 1..Len(t.ch) |->
                IF IsTree(t.ch[i]) THEN height(t.ch[i]) ELSE 1])

(***************************************************************************)
(* ChunkString: [root_label, pieces, str, debug].                          *)
(***************************************************************************)
VerifyBlock == 5000

RECURSIVE Join(_, _)
Join(tags, sep) ==
  IF tags = <<>> THEN <<>>
  ELSE IF Len(tags) = 1 THEN tags[1]
  ELSE tags[1] \o sep \o Join(Tail(tags), sep)

\* a variant that gives a tree the tag of its first child
tagOfFirstChild(tok) ==
  IF tok.k = "tok" THEN tok.tag
  ELSE IF tok.ch[1].k = "tok" THEN tok.ch[1].tag ELSE tok.ch[1].label

\* ChunkString._tag: the pieces of this model are tagged tokens and trees,
\* for which _tag does not raise
tag(tok) == IF tok.k = "tok" THEN tok.tag ELSE tok.label

Tags(pieces) == [i \in 1..Len(pieces) |-> tag(pieces[i])]

\* ChunkString(chunk_struct, debug_level)
ChunkString(chunk_struct, debug_level) ==
  [root_label |-> chunk_struct.label,
   pieces |-> chunk_struct.ch,
   str |-> <<"<">> \o Join(Tags(chunk_struct.ch), <<">", "<">>) \o <<">">>,
   debug |-> debug_level]

\* ChunkString.is_valid: ^(\{?(<[^\{\}<>]+?>)\}?)*?$ matched from index i
RECURSIVE ValidFrom(_, _)
ValidFrom(s, i) ==
  IF AtEnd(s, i) THEN TRUE
  ELSE LET j == IF s[i] = "{" THEN i + 1 ELSE i
           e == TagCharsEnd(s, j + 1)
           m == IF e + 1 <= Len(s) /\ s[e + 1] = "}" THEN e + 2 ELSE e + 1
       IN /\ j <= Len(s) /\ s[j] = "<"
          /\ e > j + 1 /\ e <= Len(s) /\ s[e] = ">"
          /\ ValidFrom(s, m)

is_valid(s) == ValidFrom(s, 1)

get_curly_brackets(s) == SelectSeq(s, LAMBDA c : c \in {"{", "}"})

\* (\{\})*$ matched at the start of b
has_balanced_non_nested_curly_brackets(b) ==
  /\ Len(b) % 2 = 0
  /\ \A i \in 1..Len(b) : b[i] = IF i % 2 = 1 THEN "{" ELSE "}"

\* re.compile(r"[\{\}<>]+").split(s)
RECURSIVE SplitRuns(_, _, _, _)
SplitRuns(s, i, cur, in_run) ==
  IF i > Len(s) THEN <<cur>>
  ELSE IF s[i] \in TagDelims
    THEN (IF in_run THEN <<>> ELSE <<cur>>) \o SplitRuns(s, i + 1, <<>>, TRUE)
  ELSE SplitRuns(s, i + 1, Append(cur, s[i]), FALSE)

tag_splitter(s) == SplitRuns(s, 1, <<>>, FALSE)

\* re.compile(r"[{}]").split(s)
RECURSIVE SplitBraces(_, _, _)
SplitBraces(s, i, cur) ==
  IF i > Len(s) THEN <<cur>>
  ELSE IF s[i] \in {"{", "}"} THEN <<cur>> \o SplitBraces(s, i + 1, <<>>)
  ELSE SplitBraces(s, i + 1, Append(cur, s[i]))

get_chunk_pieces(s) == SplitBraces(s, 1, <<>>)

\* ChunkString._verify(s, verify_tags): TRUE when it returns, FALSE when it
\* raises ValueError
verify(cs, s, verify_tags) ==
  LET curly_brackets == get_curly_brackets(s)
      tags1 == LET t == tag_splitter(s) IN SubSeq(t, 2, Len(t) - 1)
      tags2 == Tags(cs.pieces)
  IN /\ is_valid(s)
     /\ \A i \in 0..(Len(curly_brackets) \div VerifyBlock) :
          has_balanced_non_nested_curly_brackets(
            Slice(curly_brackets, i * VerifyBlock + 1,
                  i * VerifyBlock + VerifyBlock))
     /\ verify_tags <= 0 \/ tags1 = tags2

\* a variant that does not move on in pieces after a chunk
RECURSIVE ChunkPiecesNoAdvance(_, _, _, _, _, _)
ChunkPiecesNoAdvance(parts, i, pieces, index, piece_in_chunk, chunk_label) ==
  IF i > Len(parts) THEN <<>>
  ELSE LET length == Count(parts[i], "<")
           subsequence == Slice(pieces, index + 1, index + length)
       IN (IF piece_in_chunk THEN <<Tree(chunk_label, subsequence)>>
           ELSE subsequence)
          \o ChunkPiecesNoAdvance(parts, i + 1, pieces,
                                  IF piece_in_chunk THEN index
                                  ELSE index + length,
                                  ~piece_in_chunk, chunk_label)

\* the loop of to_chunkstruct over the pieces of the split string
RECURSIVE ChunkPieces(_, _, _, _, _, _)
ChunkPieces(parts, i, pieces, index, piece_in_chunk, chunk_label) ==
  IF i > Len(parts) THEN <<>>
  ELSE LET length == Count(parts[i], "<")
           subsequence == Slice(pieces, index + 1, index + length)
       IN (IF piece_in_chunk THEN <<Tree(chunk_label, subsequence)>>
           ELSE subsequence)
          \o ChunkPieces(parts, i + 1, pieces, index + length,
                         ~piece_in_chunk, chunk_label)

\* ChunkString.to_chunkstruct(chunk_label): ok is FALSE when it raises
to_chunkstruct(cs, chunk_label) ==
  IF cs.debug > 0 /\ ~verify(cs, cs.str, 1)
    THEN [ok |-> FALSE, tree |-> <<>>]
  ELSE [ok |-> TRUE,
        tree |-> Tree(cs.root_label,
                      ChunkPieces(get_chunk_pieces(cs.str), 1, cs.pieces, 0,
                                  FALSE, chunk_label))]

\* ChunkString.apply_transform(regexp, repl): ok is FALSE when it raises;
\* cs is the chunk string afterwards
\* a variant that commits the string before it verifies it
CommitThenVerify(cs, s) ==
  IF cs.debug > 1 /\ ~verify(cs, s, cs.debug - 2)
    THEN [ok |-> FALSE, cs |-> [cs EXCEPT !.str = s]]
  ELSE [ok |-> TRUE, cs |-> [cs EXCEPT !.str = s]]

\* the end of apply_transform, s is the string without its empty chunks:
\* _verify raises before self._str is assigned
VerifyThenCommit(cs, s) ==
  IF cs.debug > 1 /\ ~verify(cs, s, cs.debug - 2)
    THEN [ok |-> FALSE, cs |-> cs]
  ELSE [ok |-> TRUE, cs |-> [cs EXCEPT !.str = s]]

\* ChunkString.apply_transform(regexp, repl) of a rule: ok is FALSE when it
\* raises; cs is the chunk string afterwards
apply_transform(cs, regexp) ==
  VerifyThenCommit(cs, RemoveEmptyChunks(re_sub(regexp, cs.str)))

\* a transformer [find, repl] of plain text: re.sub replaces every find by
\* repl, left to right; an empty find stands for the regexp \Z, which adds
\* repl at the end
RECURSIVE ReplaceAll(_, _, _, _)
ReplaceAll(s, find, repl, i) ==
  IF i > Len(s) THEN <<>>
  ELSE IF i + Len(find) - 1 <= Len(s) /\ SubSeq(s, i, i + Len(find) - 1) = find
    THEN repl \o ReplaceAll(s, find, repl, i + Len(find))
  ELSE <<s[i]>> \o ReplaceAll(s, find, repl, i + 1)

re_sub_text(tr, s) ==
  IF tr.find = <<>> THEN s \o tr.repl ELSE ReplaceAll(s, tr.find, tr.repl, 1)

\* ChunkString.apply_transform(regexp, repl) of a transformer of plain text
apply_transform_text(cs, tr) ==
  VerifyThenCommit(cs, RemoveEmptyChunks(re_sub_text(tr, cs.str)))

(***************************************************************************)
(* RegexpChunkRule.fromstring and RegexpParser.__init__.  A grammar is the *)
(* sequence of its lines.  A RegexpChunkParser (a stage) is the record     *)
(* [rules, chunk_label, root_label].                                       *)
(***************************************************************************)
\* fromstring turns the errors of ChunkRule into ValueError
Reraise(r) ==
  IF r.ok THEN r ELSE [ok |-> FALSE, err |-> "ValueError", cache |-> r.cache]

\* fromstring after the comment is split off
FromRule(c, rule, comment) ==
  IF rule = <<>> THEN [ok |-> FALSE, err |-> "ValueError", cache |-> c]
  ELSE IF rule[1] = "{" /\ rule[Len(rule)] = "}"
    THEN Reraise(ChunkRule(c, SubSeq(rule, 2, Len(rule) - 1), comment))
  ELSE [ok |-> FALSE, err |-> "ValueError", cache |-> c]

\* the index of the first "#", or one past the end
CommentStart(s) == IF IndexOf(s, "#") = 0 THEN Len(s) + 1 ELSE IndexOf(s, "#")

\* RegexpChunkRule.fromstring(s) with the pattern cache c
fromstring(c, s) ==
  FromRule(c, Strip(Take(s, CommentStart(s) - 1)), Strip(Drop(s, CommentStart(s))))

RegexpChunkParser(rules, chunk_label, root_label) ==
  [rules |-> rules, chunk_label |-> chunk_label, root_label |-> root_label]

\* The state of RegexpParser._read_grammar between two lines:
\* [ok, rules, lhs, stages, cache]; ok is FALSE once it has raised.

\* RegexpParser._add_stage
add_stage(st, root_label) ==
  IF st.rules = <<>> THEN st
  ELSE IF st.lhs = <<>> THEN [st EXCEPT !.ok = FALSE]
  ELSE [st EXCEPT !.stages =
          Append(@, RegexpChunkParser(st.rules, st.lhs, root_label))]

\* rules.append(RegexpChunkRule.fromstring(line))
AddRule(st, r) ==
  IF r.ok THEN [st EXCEPT !.rules = Append(@, r.rule), !.cache = r.cache]
  ELSE [st EXCEPT !.ok = FALSE, !.cache = r.cache]

\* the rest of a pass of the loop once the stage marker is dealt with
ReadRule(st, line) ==
  IF ~st.ok \/ line = <<>> \/ line[1] = "#" THEN st
  ELSE AddRule(st, fromstring(st.cache, line))

\* a new stage begins at a line with a ":"
NewStage(st, lhs, root_label) ==
  [add_stage(st, root_label) EXCEPT !.lhs = lhs, !.rules = <<>>]

\* one pass of the loop of _read_grammar, on the stripped line
ReadStripped(st, line, root_label) ==
  IF IndexOf(line, ":") = 0 THEN ReadRule(st, line)
  ELSE ReadRule(NewStage(st, Strip(Take(line, IndexOf(line, ":") - 1)),
                         root_label),
                Strip(Drop(line, IndexOf(line, ":"))))

RECURSIVE ReadLines(_, _, _, _)
ReadLines(lines, i, st, root_label) ==
  IF ~st.ok THEN st
  ELSE IF i > Len(lines) THEN add_stage(st, root_label)
  ELSE ReadLines(lines, i + 1,
                 ReadStripped(st, Strip(lines[i]), root_label), root_label)

\* RegexpParser._read_grammar(grammar, root_label, trace) with the cache c
read_grammar(c, grammar, root_label) ==
  ReadLines(grammar, 1,
            [ok |-> TRUE, rules |-> <<>>, lhs |-> <<>>, stages |-> <<>>,
             cache |-> c],
            root_label)

\* RegexpParser(grammar, root_label, loop) for a grammar given as a string
ParserOf(st, loop) ==
  [ok |-> st.ok, cache |-> st.cache,
   parser |-> [stages |-> st.stages, loop |-> loop]]

RegexpParser(c, grammar, root_label, loop) ==
  ParserOf(read_grammar(c, grammar, root_label), loop)

(***************************************************************************)
(* The inputs of the model: grammars, token tags, token lists.             *)
(***************************************************************************)
\* one stage, one rule
GrammarNP ==
  <<<<"N", "P", ":", " ", "{", "<", "D", ">", "?", "<", "N", ">", "+", "}", " ", " ", "#", " ", "n", "o", "u", "n", " ", "p", "h", "r", "a", "s", "e">>>>

\* two stages: the second one reads the groups of the first
GrammarCascade ==
  <<<<"N", "P", ":", " ", "{", "<", "D", ">", "?", "<", "J", ">", "*", "<", "N", ">", "*", "}">>,
     <<"V", "P", ":", " ", "{", "<", "V", ">", "<", "N", "P", ">", "*", "}">>>>

\* one rule that groups everything
GrammarAll ==
  <<<<"N", "P", ":", " ", "{", "<", ".", "*", ">", "+", "}">>>>

\* one stage with two rules
GrammarTwoRules ==
  <<<<"N", "P", ":">>,
     <<" ", " ", "{", "<", "D", ">", "}">>,
     <<" ", " ", "{", "<", "N", ">", "+", "}", " ", " ", " ", "#", " ", "n", "o", "u", "n", "s">>>>

\* one stage with two rules, the second with a negated set in its atom
GrammarNegatedSet ==
  <<<<"N", "P", ":">>,
     <<" ", " ", "{", "<", "D", ">", "}">>,
     <<" ", " ", "{", "<", "[", "^", "V", "]", "*", ">", "}">>>>

\* a rule whose pattern is text outside angle brackets
GrammarText ==
  <<<<"X", ":", " ", "{", "N", "}">>>>

\* the empty grammar: no stage
GrammarEmpty ==
  <<<<>>>>

\* two braced patterns on one line
GrammarTwoBraced ==
  <<<<"X", ":", " ", "{", "<", "D", ">", "}", " ", "{", "<", "N", ">", "}">>>>

\* a counted repeat
GrammarQuantifier ==
  <<<<"N", "P", ":", " ", "{", "<", "N", ">", "{", "2", ",", "}", "}">>>>

\* a pattern that closes the group chunk early
GrammarSplice ==
  <<<<"N", "P", ":", " ", "{", "<", "D", ">", ")", "(", "<", "N", ">", "}">>>>

\* a counted repeat of four atoms or more
GrammarGroup ==
  <<<<"G", "R", "O", "U", "P", ":", " ",
      "{", "<", "N", ".", "*", ">", "{", "4", ",", "}", "}">>>>

\* the cascade of five stages of the doctest of RegexpParser
GrammarScenarioB ==
  <<<<"N", "P", ":", " ", "{", "<", "D", "T", ">", "?", "<", "J", "J", ">", "*", "<", "N", "N", ">", "*", "}">>,
    <<"P", ":", " ", "{", "<", "I", "N", ">", "}">>,
    <<"V", ":", " ", "{", "<", "V", ".", "*", ">", "}">>,
    <<"P", "P", ":", " ", "{", "<", "P", ">", "<", "N", "P", ">", "}">>,
    <<"V", "P", ":", " ", "{", "<", "V", ">", "<", "N", "P", "|", "P", "P", ">", "*", "}">>>>

\* a rule line with the braces around the pattern and the line without them
GrammarBraced == <<<<"N", "P", ":", " ", "{", "<", "D", ">", "?", "<", "N", ">", "+", "}">>>>

GrammarUnbraced == <<<<"N", "P", ":", " ", "<", "D", ">", "?", "<", "N", ">", "+">>>>

\* a line with no label, a line with no pattern, a line with an empty
\* pattern in braces, and a stage with no rule before another stage
GrammarNoLabel == <<<<":", " ", "{", "<", "D", ">", "}">>>>

GrammarNoPattern == <<<<"N", "P", ":">>>>

GrammarEmptyPattern == <<<<"N", "P", ":", " ", "{", "}">>>>

GrammarNoPatternThenStage == <<<<"N", "P", ":">>, <<"V", "P", ":", " ", "{", "<", "V", ">", "}">>>>

IncompleteGrammars ==
  {GrammarNoLabel, GrammarNoPattern, GrammarEmptyPattern,
   GrammarNoPatternThenStage}

\* blank lines and lines that start with "#"
SkippedLines ==
  {<<>>,
   <<" ", " ">>,
   <<"#", " ", "n", "o", "u", "n", "s">>,
   <<"#", " ", "n", "o", "t", "e", ":", " ", "n", "o", "u", "n", "s">>,
   <<" ", " ", "#", " ", "N", "P", ":", " ", "{", "<", "N", ">", "}">>}

\* the grammar g with line put in after its first k lines
InsertAt(g, k, line) == SubSeq(g, 1, k) \o <<line>> \o SubSeq(g, k + 1, Len(g))

CommentedGrammars ==
  {InsertAt(GrammarTwoRules, k, line) :
     k \in 0..Len(GrammarTwoRules), line \in SkippedLines}

Grammars ==
  CommentedGrammars \cup IncompleteGrammars \cup
  {GrammarNP,
   GrammarBraced,
   GrammarUnbraced,
   GrammarScenarioB,
   GrammarGroup,
   GrammarCascade,
   GrammarAll,
   GrammarTwoRules,
   GrammarNegatedSet,
   GrammarText,
   GrammarEmpty,
   GrammarTwoBraced,
   GrammarQuantifier,
   GrammarSplice}

ROOT == <<"S">>

TokenTags == {<<"D">>, <<"N">>, <<"V">>}

\* the token lists of n tokens: the value of a token is its position
TokenLists(n) ==
  {[i \in 1..n |-> Token(i, tags[i])] : tags \in [1..n -> TokenTags]}

AllTokenLists == UNION {TokenLists(n) : n \in 0..MaxTokens}

\* the sentence of the doctest: its tags, with the position as the value
ScenarioBTokens ==
  <<Token(1, <<"D", "T">>),
    Token(2, <<"N", "N">>),
    Token(3, <<"V", "B", "D">>),
    Token(4, <<"I", "N">>),
    Token(5, <<"D", "T">>),
    Token(6, <<"N", "N">>),
    Token(7, <<"D", "T">>),
    Token(8, <<"N", "N">>),
    Token(9, <<"V", "B", "D">>)>>

\* the lists of n tokens with the tags a and b
ListsOf(n, a, b) ==
  {[i \in 1..n |-> Token(i, tags[i])] : tags \in [1..n -> {a, b}]}

\* longer lists of tokens, for the runs that GrammarGroup looks for
RunTokenLists ==
  UNION {ListsOf(n, <<"N">>, <<"V">>) : n \in (MaxTokens + 1)..MaxRunTokens}
  \cup ListsOf(MaxTokens + 1, <<"N", "N">>, <<"V">>)
  \cup ListsOf(MaxTokens + 2, <<"N", "N">>, <<"N">>)

PyList(items) == [k |-> "list", ch |-> items]

None == [k |-> "None"]

\* the trees given to ChunkString: up to MaxTokens children, tokens and
\* subtrees, down to depth 3
Children ==
  {Token(1, <<"D">>), Token(2, <<"N">>),
   Tree(<<"N", "P">>, <<Token(3, <<"N">>)>>),
   Tree(<<"V", "P">>,
        <<Token(4, <<"V">>), Tree(<<"N", "P">>, <<Token(5, <<"D">>)>>)>>)}

Trees ==
  UNION {{Tree(ROOT, ch) : ch \in [1..n -> Children]} : n \in 0..MaxTokens}

\* the tag patterns given to ChunkRule
TagPatterns ==
  {<<"<", "D", ">", "?", "<", "N", ">", "+">>,
   <<"<", "D", ">", "?", " ", "<", "N", ".", "*", ">">>,
   <<"<", ".", "*", ">", "+">>,
   <<"<", "D", "|", "N", ">">>,
   <<"(", "<", "D", ">", "|", "<", "N", ">", ")", "+">>,
   <<"<", "D", ">", "?", "<", "J", ">", "*", "<", "N", ">", "*">>,
   <<"<", "N", ">", "{", "2", "}">>,
   <<"<", "N", ">", "{", "2", ",", "}">>,
   <<"<", "N", ">", "{", "1", ",", "2", "}">>,
   <<"<", "N", ">", "{", ",", "2", "}">>,
   <<"<", "N", ">", "{", " ", "2", " ", "}">>,
   <<"<", "N", ".", ">">>,
   <<"<", "[", "^", "D", "]", "+", ">">>,
   <<"<", "D", ")", "|", "(", "N", ">">>,
   <<"<", "D", ">", ")", "(", "<", "N", ">">>,
   <<"<", ">">>,
   <<>>,
   <<"N">>,
   <<".">>,
   <<"<", "D", ">", "N">>,
   <<"<", "D", ">", ".", "<", "N", ">">>,
   <<"{", "}">>,
   <<"{", "<", "D", ">">>,
   <<"<", "D", ">", "}">>,
   <<"<", "D", ">", "}", "{", "<", "N", ">">>,
   <<"<", "D", ">", "{", ",", "}">>,
   <<"<", "D", ">", "{", "N", "}">>,
   <<"<", "D", "{", "2", "}", ">">>,
   <<"<", "<", "D", ">", ">">>,
   <<"<", "D", ">", ">">>,
   <<"{", "2", "}", "<", "D", ">">>,
   <<"<", "D", ">", "{", "2", ",", "1", "}">>,
   <<"(", "<", "D", ">">>,
   <<"*", "<", "D", ">">>}

\* the tags of the pieces a pattern is matched against
PieceTags == {<<"D">>, <<"N">>, <<"N", "N">>}

AllTagLists == UNION {[1..n -> PieceTags] : n \in 0..MaxTokens}

\* the string of a ChunkString whose pieces have these tags (at least one)
Encode(tags) == <<"<">> \o Join(tags, <<">", "<">>) \o <<">">>

SpansFrom(e, i) == {<<i, e[k].p>> : k \in DOMAIN e}

\* the spans <<first, next>> of s that the compiled pattern rx can match
MatchedSpans(rx, s) ==
  UNION {SpansFrom(Ends(rx, s, [p |-> i, g |-> <<>>]), i) :
           i \in 1..(Len(s) + 1)}

(***************************************************************************)
(* The state machine.  From the initial state one of three uses starts.    *)
(*  - A parser is built with RegexpParser.__init__ and RegexpParser.parse  *)
(*    is called once: it calls RegexpChunkParser.parse of every stage loop *)
(*    times; a stage builds a ChunkString, applies its rules to it with    *)
(*    apply_transform and turns it back into a tree.                       *)
(*  - A ChunkString is built from a tree and turned back into a tree.      *)
(*  - A ChunkRule is built from a tag pattern and its regular expression   *)
(*    is matched against the string of a list of tags.                     *)
(***************************************************************************)
\* the threads that call parse on the one parser
Callers == {1, 2}

\* the locals of a call of RegexpParser.parse that has not started
Idle ==
  [pc |-> "idle", input |-> None, chunk_struct |-> None, loop_i |-> 0,
   stage_i |-> 0, rule_i |-> 0, chunkstr |-> None]

\* the identities of the trees
Nodes == 1..MaxNodes

\* _parent of a tree without a parent
NoParent == 0

VARIABLES
  pc,            \* where the use is
  cache,         \* tag_pattern2re_pattern._cache
  grammar,       \* the grammar given to RegexpParser
  parser,        \* the RegexpParser: [stages, loop]
  input,         \* the argument of RegexpParser.parse
  chunk_struct,  \* chunk_struct of RegexpParser.parse; the tree of a ChunkString
  loop_i,        \* the pass of the outer loop of RegexpParser.parse, from 1
  stage_i,       \* the index of the stage of the inner loop, from 1
  rule_i,        \* the index of the rule of the loop of a stage, from 1
  chunkstr,      \* the ChunkString
  calls,         \* history: [stage, arg] of every call of a stage
  rets,          \* history: what every call of a stage returned
  pat,           \* the tag pattern given to ChunkRule
  compiled,      \* what ChunkRule returned or raised
  subject,       \* the tags the pattern is matched against
  spans,         \* the spans of the string of subject that the pattern matches
  callers,       \* per caller of parse: [arg, frame], the argument and the locals
  overlapped,    \* history: a caller took a step while another call was running
  xform,         \* history: the last transformer applied and what it gave
  n_xforms,      \* the number of transformers applied to the ChunkString
  label_in,      \* the argument of as_token_label
  label_out,     \* what as_token_label returned
  lexer,         \* what Lexer(matchers) returned or raised
  matchers,      \* the matchers given to Lexer
  given,         \* history: the tokens as lex_tokens was given them
  lex_toks,      \* the Token objects given to Lexer.lex_tokens, by identity
  yielded,       \* the identities of the tokens that lex_tokens yielded so far
  made,          \* the identities of the ParentedTree objects constructed
  kids,          \* per ParentedTree, its list of children
  parent_of,     \* per ParentedTree, its _parent
  tree_op,       \* history: the last tree operation and what it raised
  n_ops,         \* the number of operations applied to the trees
  itree,         \* the ImmutableTree: [label, ch, hash]
  heap,          \* the objects: lists and trees, a reference is an index
  obj_in,        \* the object given to parse and the heap at the call
  obj_cur        \* the object chunk_struct is bound to

parseVars == <<input, chunk_struct, loop_i, stage_i, rule_i, chunkstr, calls, rets>>

patVars == <<pat, compiled, subject, spans>>

conVars == <<callers, overlapped>>

xformVars == <<xform, n_xforms>>

labelVars == <<label_in, label_out>>

lexVars == <<lexer, matchers, given, lex_toks, yielded>>

treeVars == <<made, kids, parent_of, tree_op, n_ops, itree>>

objVars == <<heap, obj_in, obj_cur>>

vars ==
  <<pc, cache, grammar, parser, input, chunk_struct, loop_i, stage_i, rule_i,
    chunkstr, calls, rets, pat, compiled, subject, spans, callers, overlapped,
    xform, n_xforms, label_in, label_out, lexer, matchers,
    given, lex_toks, yielded, made, kids, parent_of, tree_op, n_ops, itree,
    heap, obj_in, obj_cur>>

\* nothing is built yet
Fresh ==
  /\ pc = "new"
  /\ cache = <<>>
  /\ grammar = None
  /\ parser = None
  /\ input = None
  /\ chunk_struct = None
  /\ loop_i = 0
  /\ stage_i = 0
  /\ rule_i = 0
  /\ chunkstr = None
  /\ calls = <<>>
  /\ rets = <<>>
  /\ pat = None
  /\ compiled = None
  /\ subject = None
  /\ spans = {}
  /\ callers = [c \in Callers |-> [arg |-> None, frame |-> Idle]]
  /\ overlapped = FALSE
  /\ xform = None
  /\ n_xforms = 0
  /\ lexer = None
  /\ matchers = None
  /\ given = <<>>
  /\ lex_toks = <<>>
  /\ yielded = <<>>
  /\ made = {}
  /\ kids = [n \in Nodes |-> <<>>]
  /\ parent_of = [n \in Nodes |-> NoParent]
  /\ tree_op = [op |-> "", raised |-> "", why |-> ""]
  /\ n_ops = 0
  /\ itree = None
  /\ heap = <<>>
  /\ obj_in = None
  /\ obj_cur = 0

Init ==
  /\ Fresh
  /\ label_in = None
  /\ label_out = None

Constructed(r) ==
  /\ cache' = r.cache
  /\ IF r.ok THEN pc' = "ready" /\ parser' = r.parser
     ELSE pc' = "ctor_error" /\ parser' = None

\* RegexpParser(grammar, root_label="S", loop=loop)
Construct(g, loop) ==
  /\ pc = "new"
  /\ grammar' = g
  /\ Constructed(RegexpParser(cache, g, ROOT, loop))
  /\ UNCHANGED <<parseVars, patVars, conVars, xformVars, labelVars, lexVars, treeVars, objVars>>

\* RegexpParser.parse(tokens) is called with a list of tagged tokens
ParseCall(tokens) ==
  /\ pc = "ready"
  /\ pc' = "loop"
  /\ input' = PyList(tokens)
  /\ chunk_struct' = PyList(tokens)
  /\ loop_i' = 1
  /\ stage_i' = 1
  /\ UNCHANGED <<cache, grammar, parser, rule_i, chunkstr, calls, rets, patVars, conVars, xformVars, labelVars, lexVars, treeVars, objVars>>

NStages == Len(parser.stages)

LoopsLeft == loop_i <= parser.loop /\ NStages > 0

\* a variant that runs only the last stage again in the later passes
NextStageLastOnly ==
  IF stage_i < NStages THEN loop_i' = loop_i /\ stage_i' = stage_i + 1
  ELSE loop_i' = loop_i + 1 /\ stage_i' = NStages

\* the loops of RegexpParser.parse move on to the next stage
NextStage ==
  IF stage_i < NStages THEN loop_i' = loop_i /\ stage_i' = stage_i + 1
  ELSE loop_i' = loop_i + 1 /\ stage_i' = 1

\* a variant that wraps a tree in a tree as well
WrappedAlways(stage, cs) ==
  Tree(stage.root_label, IF IsTree(cs) THEN <<cs>> ELSE cs.ch)

\* RegexpChunkParser.parse wraps a list of tokens in a tree
Wrapped(stage, cs) == IF IsTree(cs) THEN cs ELSE Tree(stage.root_label, cs.ch)

\* RegexpChunkParser.parse up to the loop over the rules; with no child in
\* chunk_struct it returns an empty tree at once
StageCall ==
  /\ pc = "loop"
  /\ LoopsLeft
  /\ calls' = Append(calls, [stage |-> stage_i, arg |-> chunk_struct])
  /\ IF Len(chunk_struct.ch) = 0
       THEN /\ chunk_struct' = Tree(parser.stages[stage_i].root_label, <<>>)
            /\ rets' = Append(rets, chunk_struct')
            /\ NextStage
            /\ UNCHANGED <<pc, rule_i, chunkstr>>
     ELSE /\ chunkstr' = ChunkString(Wrapped(parser.stages[stage_i],
                                             chunk_struct), 1)
          /\ rule_i' = 1
          /\ pc' = "rules"
          /\ UNCHANGED <<chunk_struct, loop_i, stage_i, rets>>
  /\ UNCHANGED <<cache, grammar, parser, input, patVars, conVars, xformVars, labelVars, lexVars, treeVars, objVars>>

Transformed(r) ==
  IF r.ok THEN chunkstr' = r.cs /\ rule_i' = rule_i + 1 /\ pc' = pc
  ELSE pc' = "error" /\ UNCHANGED <<chunkstr, rule_i>>

\* one pass of the loop over the rules of RegexpChunkParser.parse
ApplyRule ==
  /\ pc = "rules"
  /\ rule_i <= Len(parser.stages[stage_i].rules)
  /\ Transformed(apply_transform(chunkstr,
                                 parser.stages[stage_i].rules[rule_i].regexp))
  /\ UNCHANGED <<cache, grammar, parser, input, chunk_struct, loop_i, stage_i,
                 calls, rets, patVars, conVars, xformVars, labelVars, lexVars, treeVars, objVars>>

Returned(r) ==
  IF r.ok
    THEN /\ chunk_struct' = r.tree
         /\ rets' = Append(rets, r.tree)
         /\ NextStage
         /\ pc' = "loop"
  ELSE pc' = "error" /\ UNCHANGED <<chunk_struct, rets, loop_i, stage_i>>

\* the end of RegexpChunkParser.parse: to_chunkstruct returns or raises
StageReturn ==
  /\ pc = "rules"
  /\ rule_i > Len(parser.stages[stage_i].rules)
  /\ Returned(to_chunkstruct(chunkstr, parser.stages[stage_i].chunk_label))
  /\ chunkstr' = None
  /\ UNCHANGED <<cache, grammar, parser, input, rule_i, calls, patVars, conVars, xformVars, labelVars, lexVars, treeVars, objVars>>

\* RegexpParser.parse returns chunk_struct
Return ==
  /\ pc = "loop"
  /\ ~LoopsLeft
  /\ pc' = "done"
  /\ UNCHANGED <<cache, grammar, parser, parseVars, patVars, conVars, xformVars, labelVars, lexVars, treeVars, objVars>>

\* ChunkString(t, debug_level)
NewChunkString(t, debug_level) ==
  /\ pc = "new"
  /\ pc' = "chunkstring"
  /\ chunk_struct' = t
  /\ chunkstr' = ChunkString(t, debug_level)
  /\ UNCHANGED <<cache, grammar, parser, input, loop_i, stage_i, rule_i, calls,
                 rets, patVars, conVars, xformVars, labelVars, lexVars, treeVars, objVars>>

Converted(r) ==
  IF r.ok THEN pc' = "converted" /\ rets' = <<r.tree>>
  ELSE pc' = "convert_error" /\ rets' = rets

\* chunkstr.to_chunkstruct(chunk_label) with the label of the tree
ToChunkStruct ==
  /\ pc = "chunkstring"
  /\ Converted(to_chunkstruct(chunkstr, chunk_struct.label))
  /\ UNCHANGED <<cache, grammar, parser, input, chunk_struct, loop_i, stage_i,
                 rule_i, chunkstr, calls, patVars, conVars, xformVars, labelVars, lexVars, treeVars, objVars>>

Compiled(r) ==
  /\ cache' = r.cache
  /\ IF r.ok THEN pc' = "compiled" /\ compiled' = [ok |-> TRUE, rule |-> r.rule]
     ELSE pc' = "rejected" /\ compiled' = [ok |-> FALSE, err |-> r.err]

\* ChunkRule(p, "")
CompilePattern(p) ==
  /\ pc = "new"
  /\ pat' = p
  /\ Compiled(ChunkRule(cache, p, <<>>))
  /\ UNCHANGED <<grammar, parser, parseVars, subject, spans, conVars, xformVars, labelVars, lexVars, treeVars, objVars>>

\* the regular expression of the rule is matched at every index of the
\* string of a ChunkString whose pieces have the tags given
MatchPattern(tags) ==
  /\ pc = "compiled"
  /\ pc' = "matched"
  /\ subject' = tags
  /\ spans' = MatchedSpans(compiled.rule.regexp, Encode(tags))
  /\ UNCHANGED <<cache, grammar, parser, parseVars, pat, compiled, conVars, xformVars, labelVars, lexVars, treeVars, objVars>>

(***************************************************************************)
(* Two threads call parse on the one parser.  A call keeps chunk_struct,   *)
(* the loop indexes and the ChunkString in locals; the parser is read.     *)
(***************************************************************************)
\* a variant that keeps the locals of every call in one place, as attributes
\* of the parser would be
LocalsOfFirst(c) == callers[1].frame

\* the locals of the call of caller c
Locals(c) == callers[c].frame

\* the locals when RegexpParser.parse(tokens) is entered
Called(tokens) ==
  [pc |-> "loop", input |-> PyList(tokens), chunk_struct |-> PyList(tokens),
   loop_i |-> 1, stage_i |-> 1, rule_i |-> 0, chunkstr |-> None]

LoopsLeftOf(f) == f.loop_i <= parser.loop /\ NStages > 0

\* the loops of RegexpParser.parse move on to the next stage
NextStageOf(f) ==
  IF f.stage_i < NStages THEN [f EXCEPT !.stage_i = f.stage_i + 1]
  ELSE [f EXCEPT !.loop_i = f.loop_i + 1, !.stage_i = 1]

\* RegexpChunkParser.parse up to the loop over the rules
StageCalled(f) ==
  IF Len(f.chunk_struct.ch) = 0
    THEN NextStageOf([f EXCEPT !.chunk_struct =
                        Tree(parser.stages[f.stage_i].root_label, <<>>)])
  ELSE [f EXCEPT !.chunkstr = ChunkString(Wrapped(parser.stages[f.stage_i],
                                                  f.chunk_struct), 1),
                 !.rule_i = 1,
                 !.pc = "rules"]

\* one pass of the loop over the rules, r is what apply_transform gave
RuleApplied(f, r) ==
  IF r.ok THEN [f EXCEPT !.chunkstr = r.cs, !.rule_i = f.rule_i + 1]
  ELSE [f EXCEPT !.pc = "error"]

\* the end of RegexpChunkParser.parse, r is what to_chunkstruct gave
StageReturned(f, r) ==
  IF r.ok
    THEN NextStageOf([f EXCEPT !.chunk_struct = r.tree, !.chunkstr = None,
                               !.pc = "loop"])
  ELSE [f EXCEPT !.chunkstr = None, !.pc = "error"]

\* the next step of the call with the locals f
StepOf(f) ==
  IF f.pc = "loop"
    THEN IF LoopsLeftOf(f) THEN StageCalled(f) ELSE [f EXCEPT !.pc = "done"]
  ELSE IF f.rule_i <= Len(parser.stages[f.stage_i].rules)
    THEN RuleApplied(f, apply_transform(f.chunkstr,
                          parser.stages[f.stage_i].rules[f.rule_i].regexp))
  ELSE StageReturned(f, to_chunkstruct(f.chunkstr,
                          parser.stages[f.stage_i].chunk_label))

\* the call with the locals f run to its end with no other call
RECURSIVE RunAlone(_)
RunAlone(f) == IF f.pc \in {"done", "error"} THEN f ELSE RunAlone(StepOf(f))

Running(c) == callers[c].frame.pc \in {"loop", "rules"}

\* caller c takes a step that leaves its locals as f
CallerStep(c, f) ==
  /\ callers' = [callers EXCEPT ![c].frame = f]
  /\ overlapped' = (overlapped \/ \E d \in Callers \ {c} : Running(d))
  /\ UNCHANGED <<pc, cache, grammar, parser, parseVars, patVars, xformVars,
                 labelVars, lexVars, treeVars, objVars>>

\* caller c calls RegexpParser.parse(tokens)
CallerParseCall(c, tokens) ==
  /\ pc = "ready"
  /\ Locals(c).pc = "idle"
  /\ callers' = [callers EXCEPT ![c] = [arg |-> PyList(tokens),
                                        frame |-> Called(tokens)]]
  /\ UNCHANGED <<pc, cache, grammar, parser, parseVars, patVars, overlapped,
                 xformVars, labelVars, lexVars, treeVars, objVars>>

CallerStageCall(c) ==
  /\ pc = "ready"
  /\ Locals(c).pc = "loop"
  /\ LoopsLeftOf(Locals(c))
  /\ CallerStep(c, StageCalled(Locals(c)))

CallerApplyRule(c) ==
  /\ pc = "ready"
  /\ Locals(c).pc = "rules"
  /\ Locals(c).rule_i <= Len(parser.stages[Locals(c).stage_i].rules)
  /\ CallerStep(c, StepOf(Locals(c)))

CallerStageReturn(c) ==
  /\ pc = "ready"
  /\ Locals(c).pc = "rules"
  /\ Locals(c).rule_i > Len(parser.stages[Locals(c).stage_i].rules)
  /\ CallerStep(c, StepOf(Locals(c)))

CallerReturn(c) ==
  /\ pc = "ready"
  /\ Locals(c).pc = "loop"
  /\ ~LoopsLeftOf(Locals(c))
  /\ CallerStep(c, [Locals(c) EXCEPT !.pc = "done"])

\* the grammars and the token lists of the concurrent calls
ConcurrentGrammars == {GrammarCascade, GrammarSplice}

ConcurrentInputs ==
  TokenLists(0) \cup TokenLists(1)
  \cup {<<Token(1, <<"D">>), Token(2, <<"N">>)>>}

NextConcurrent ==
  \/ \E g \in ConcurrentGrammars, loop \in 1..MaxLoop : Construct(g, loop)
  \/ \E c \in Callers, tokens \in ConcurrentInputs : CallerParseCall(c, tokens)
  \/ \E c \in Callers : CallerStageCall(c)
  \/ \E c \in Callers : CallerApplyRule(c)
  \/ \E c \in Callers : CallerStageReturn(c)
  \/ \E c \in Callers : CallerReturn(c)

SpecConcurrent == Init /\ [][NextConcurrent]_vars

(***************************************************************************)
(* Transformers applied to a ChunkString, as the doctest does at the debug *)
(* levels that verify.                                                     *)
(***************************************************************************)
TransformDone(tr, out, r) ==
  /\ chunkstr' = r.cs
  /\ xform' = [tr |-> tr, before |-> chunkstr.str, out |-> out,
               raised |-> ~r.ok]

\* chunkstr.apply_transform(regexp, repl) with the transformer tr
ApplyTransform(tr) ==
  /\ pc = "chunkstring"
  /\ n_xforms < MaxTransforms
  /\ n_xforms' = n_xforms + 1
  /\ TransformDone(tr, RemoveEmptyChunks(re_sub_text(tr, chunkstr.str)),
                   apply_transform_text(chunkstr, tr))
  /\ UNCHANGED <<pc, cache, grammar, parser, input, chunk_struct, loop_i,
                 stage_i, rule_i, calls, rets, patVars, conVars, labelVars, lexVars, treeVars, objVars>>

\* the trees and the transformers of the doctest, with tags of one letter
TransformTrees ==
  {Tree(ROOT, <<Token(1, <<"D">>), Token(2, <<"N">>)>>),
   Tree(ROOT, <<Token(1, <<"N">>),
                Tree(<<"N", "P">>, <<Token(2, <<"D">>)>>),
                Token(3, <<"N">>)>>)}

TransformFinds == {<<"<", "N", ">">>, <<"<", "D", ">", "<", "N", ">">>, <<>>}

TransformRepls ==
  {<<"N">>,
   <<"{", "<", "N", ">">>,
   <<"{", "<", "D", ">", "{", "<", "N", ">", "}", "}">>,
   <<"<", "V", ">">>,
   <<"<", "N", ">", "<", "N", ">">>,
   <<>>,
   <<"{", "<", "N", ">", "}">>,
   <<"{", "<", "D", ">", "<", "N", ">", "}">>,
   <<"}", "<", "N", ">", "{">>,
   <<"<", "N", ">", "\n">>,
   <<"\n">>}

Transformers == [find : TransformFinds, repl : TransformRepls]

NextTransform ==
  \/ \E t \in TransformTrees, debug_level \in 0..3 :
       NewChunkString(t, debug_level)
  \/ \E tr \in Transformers : ApplyTransform(tr)
  \/ ToChunkStruct

SpecTransform == Init /\ [][NextTransform]_vars

(***************************************************************************)
(* as_token_label of pygmars/__init__.py.                                  *)
(***************************************************************************)
UpperLetters ==
  {"A", "B", "C", "D", "E", "F", "G", "H", "I", "J", "K", "L", "M", "N", "O",
   "P", "Q", "R", "S", "T", "U", "V", "W", "X", "Y", "Z"}

\* str.upper() of the one lower-case letter of the inputs
upper(s) == [i \in 1..Len(s) |-> IF s[i] = "a" THEN "A" ELSE s[i]]

\* re.compile(r'[^A-Z0-9\-]').sub(' ', s)
only_wordchars(s) ==
  [i \in 1..Len(s) |->
     IF s[i] \in UpperLetters \cup Digits \cup {"-"} THEN s[i] ELSE " "]

\* ' '.join(s.split()) with i the index read and cur the word read so far
RECURSIVE JoinWords(_, _, _)
JoinWords(s, i, first) ==
  IF i > Len(s) THEN <<>>
  ELSE IF s[i] = " " THEN JoinWords(s, i + 1, first)
  ELSE (IF ~first /\ s[i - 1] = " " THEN <<" ", s[i]>> ELSE <<s[i]>>)
       \o JoinWords(s, i + 1, FALSE)

\* s.replace('--', '-'): one pass from the left
RECURSIVE ReplaceDashes(_)
ReplaceDashes(s) ==
  IF Len(s) < 2 THEN s
  ELSE IF s[1] = "-" /\ s[2] = "-" THEN <<"-">> \o ReplaceDashes(Drop(s, 2))
  ELSE <<s[1]>> \o ReplaceDashes(Tail(s))

\* s.lstrip(cs)
RECURSIVE LStripSet(_, _)
LStripSet(s, cs) ==
  IF s # <<>> /\ Head(s) \in cs THEN LStripSet(Tail(s), cs) ELSE s

\* s.strip(cs)
StripSet(s, cs) == Reverse(LStripSet(Reverse(LStripSet(s, cs)), cs))

as_token_label(s) ==
  LStripSet(
    StripSet(ReplaceDashes(ReplaceChar(JoinWords(only_wordchars(upper(s)),
                                                 1, TRUE),
                                       " ", <<"-">>)),
             {"-"}),
    Digits)

\* the characters of the strings given to as_token_label
LabelChars == {"a", "1", "-", " ", "."}

LabelInputs == UNION {[1..n -> LabelChars] : n \in 0..MaxLabelLen}

InitLabel ==
  /\ Fresh
  /\ label_in \in LabelInputs
  /\ label_out = None

\* as_token_label(label_in)
AsTokenLabel ==
  /\ pc = "new"
  /\ pc' = "labelled"
  /\ label_out' = as_token_label(label_in)
  /\ UNCHANGED <<cache, grammar, parser, parseVars, patVars, conVars,
                 xformVars, label_in, lexVars, treeVars, objVars>>

NextLabel == AsTokenLabel

SpecLabel == InitLabel /\ [][NextLabel]_vars

(***************************************************************************)
(* The lexer.  A matcher is a pair of a regexp and a label; the regexp is   *)
(* a string or, as in the tests, a callable.  A Token is an object: the    *)
(* tokens given to lex_tokens are kept by identity, the index in lex_toks, *)
(* and lex_tokens yields identities.  The label of a Token is None or a    *)
(* string.                                                                 *)
(***************************************************************************)

Str(s) == [k |-> "str", s |-> s]

Matcher(regexp, label) == [callable |-> FALSE, regexp |-> regexp, label |-> label]

\* a matcher whose first item is a function of the value; re.compile does
\* not take it
CallableMatcher(label) == [callable |-> TRUE, regexp |-> <<>>, label |-> label]

\* Token(value, label): Token.__init__
LexToken(value, label) == [k |-> "Token", value |-> value, label |-> label]

\* re.compile(regexp) of one matcher: TypeError for a callable, re.error for
\* a string that is not a pattern
CompileMatcher(m) ==
  IF m.callable THEN [ok |-> FALSE, n |-> <<>>] ELSE re_compile(m.regexp)

\* Lexer.__init__: the list of (match, label, regexp); an exception of
\* re.compile enters the handler, which names the variables regexp and
\* label of the comprehension, and these are not bound there
Lexer(regexps) ==
  IF \A i \in 1..Len(regexps) : CompileMatcher(regexps[i]).ok
    THEN [ok |-> TRUE,
          regexps |-> [i \in 1..Len(regexps) |->
                         [match |-> CompileMatcher(regexps[i]).n,
                          label |-> regexps[i].label,
                          regexp |-> regexps[i].regexp]]]
  ELSE [ok |-> FALSE, raised |-> "NameError"]

\* regexp(token.value): re.Pattern.match, a match that starts at the start
\* of the value
Matches(match, value) == Ends(match, value, [p |-> 1, g |-> <<>>]) # <<>>

\* the loop of lex_tokens over the matchers from index i, without break
RECURSIVE LabelOfLast(_, _, _)
LabelOfLast(regexps, token, i) ==
  IF i > Len(regexps) THEN token
  ELSE IF Matches(regexps[i].match, token.value)
    THEN LabelOfLast(regexps, [token EXCEPT !.label = Str(regexps[i].label)],
                     i + 1)
  ELSE LabelOfLast(regexps, token, i + 1)

\* the loop of lex_tokens over the matchers from index i: the token as the
\* loop leaves it
RECURSIVE LabelOf(_, _, _)
LabelOf(regexps, token, i) ==
  IF i > Len(regexps) THEN token
  ELSE IF Matches(regexps[i].match, token.value)
    THEN [token EXCEPT !.label = Str(regexps[i].label)]
  ELSE LabelOf(regexps, token, i + 1)

\* the matchers that Lexer is given
MatcherPool ==
  {Matcher(<<"a">>, <<"A">>),
   Matcher(<<"^", "a", "$">>, <<"A", "A">>),
   Matcher(<<".", "*", "s", "$">>, <<"N", "N", "S">>),
   Matcher(<<".", "*">>, <<"N", "N">>),
   Matcher(<<"a", "(">>, <<"X">>),
   CallableMatcher(<<"F", "O", "O">>)}

MatcherLists == UNION {[1..n -> MatcherPool] : n \in 0..MaxMatchers}

\* the tokens that lex_tokens is given: as lex_strings builds them, without
\* a label, and one that has a label already
LexTokenPool ==
  {LexToken(<<"a">>, None),
   LexToken(<<"a", "b">>, None),
   LexToken(<<"b", "s">>, None),
   LexToken(<<"s", "\n">>, None),
   LexToken(<<>>, None),
   LexToken(<<"b">>, Str(<<"O", "L", "D">>))}

LexTokenLists == UNION {[1..n -> LexTokenPool] : n \in 0..MaxLexTokens}

\* Lexer(regexps)
NewLexer(regexps) ==
  /\ pc = "new"
  /\ matchers' = regexps
  /\ lexer' = Lexer(regexps)
  /\ pc' = IF Lexer(regexps).ok THEN "lexer" ELSE "lexer_error"
  /\ UNCHANGED <<cache, grammar, parser, parseVars, patVars, conVars,
                 xformVars, labelVars, given, lex_toks, yielded,
                 treeVars, objVars>>

\* lexer.lex_tokens(toks): the generator is created
LexTokensCall(toks) ==
  /\ pc = "lexer"
  /\ pc' = "lexing"
  /\ given' = toks
  /\ lex_toks' = toks
  /\ yielded' = <<>>
  /\ UNCHANGED <<cache, grammar, parser, parseVars, patVars, conVars,
                 xformVars, labelVars, lexer, matchers,
                 treeVars, objVars>>

\* one round of the loop of lex_tokens: the next token is labelled in place
\* and yielded
LexTokensNext ==
  /\ pc = "lexing"
  /\ Len(yielded) < Len(lex_toks)
  /\ LET i == Len(yielded) + 1
     IN /\ lex_toks' =
             [lex_toks EXCEPT ![i] = LabelOf(lexer.regexps, lex_toks[i], 1)]
        /\ yielded' = Append(yielded, i)
  /\ UNCHANGED <<pc, cache, grammar, parser, parseVars, patVars, conVars,
                 xformVars, labelVars, lexer, matchers, given,
                 treeVars, objVars>>

\* the loop of lex_tokens is over
LexTokensDone ==
  /\ pc = "lexing"
  /\ Len(yielded) = Len(lex_toks)
  /\ pc' = "lexed"
  /\ UNCHANGED <<cache, grammar, parser, parseVars, patVars, conVars,
                 xformVars, labelVars, lexVars, treeVars, objVars>>

NextLex ==
  \/ \E regexps \in MatcherLists : NewLexer(regexps)
  \/ \E toks \in LexTokenLists : LexTokensCall(toks)
  \/ LexTokensNext
  \/ LexTokensDone

SpecLex == Init /\ [][NextLex]_vars

(***************************************************************************)
(* ParentedTree.  The trees are objects: a tree is one of Nodes once it is *)
(* constructed, kids[t] is its list of children and parent_of[t] its       *)
(* _parent.  A child is a tree or a leaf; the labels of the trees differ,  *)
(* so two trees are equal only when they are the same tree.  The indices   *)
(* given to the operations are those of Python, from 0.                    *)
(***************************************************************************)

\* a child that is not a Tree
Leaf == 0

\* start, stop or step of a slice that is not given
NoIndex == 100

PySlice(start, stop, step) == [start |-> start, stop |-> stop, step |-> step]

Max(a, b) == IF a > b THEN a ELSE b

Min(a, b) == IF a < b THEN a ELSE b

\* list(range(start, stop, step))
Range(start, stop, step) ==
  LET n == IF step > 0 THEN Max(0, (stop - start + step - 1) \div step)
           ELSE Max(0, (start - stop - step - 1) \div (0 - step))
  IN [k \in 1..n |-> start + (k - 1) * step]

\* slice_bounds(sequence, slice(start, stop)) for a sequence of length len
slice_bounds_no_step(len, start, stop) ==
  LET start0 == IF start = NoIndex THEN 0 ELSE start
      stop0 == IF stop = NoIndex THEN len ELSE stop
      start1 == IF start0 < 0 THEN Max(0, len + start0) ELSE start0
      stop1 == IF stop0 < 0 THEN Max(0, len + stop0) ELSE stop0
      stop2 == IF stop1 > len THEN len ELSE stop1
  IN [start |-> Min(start1, stop2), stop |-> stop2]

\* slice.indices(len) of the slice sl, as list.__setitem__ and
\* list.__delitem__ read it
slice_indices(len, sl) ==
  LET step == IF sl.step = NoIndex THEN 1 ELSE sl.step
      lo == IF step < 0 THEN 0 - 1 ELSE 0
      hi == IF step < 0 THEN len - 1 ELSE len
      clip(i) == IF i < 0 THEN Max(lo, i + len) ELSE Min(hi, i)
      start == IF sl.start = NoIndex THEN (IF step < 0 THEN hi ELSE lo)
               ELSE clip(sl.start)
      stop == IF sl.stop = NoIndex THEN (IF step < 0 THEN lo ELSE hi)
              ELSE clip(sl.stop)
  IN [start |-> start, stop |-> stop, step |-> step]

\* slice_bounds(sequence, slice_obj, allow_step=True)
slice_bounds(len, sl) ==
  LET step == IF sl.step = NoIndex THEN 1 ELSE sl.step
      b == IF step < 0 THEN slice_bounds_no_step(len, sl.stop, sl.start)
           ELSE slice_bounds_no_step(len, sl.start, sl.stop)
  IN [start |-> b.start, stop |-> b.stop, step |-> step]

\* the indices of the list of length len that the slice names, as the list
\* reads them: slice.indices
SliceIndices(len, sl) ==
  LET b == slice_indices(len, sl)
  IN Range(b.start, b.stop, b.step)

\* the list without the items at the indices idx
RECURSIVE DeleteAt(_, _, _)
DeleteAt(lst, idx, i) ==
  IF i > Len(lst) THEN <<>>
  ELSE (IF \E k \in 1..Len(idx) : idx[k] = i - 1 THEN <<>> ELSE <<lst[i]>>)
       \o DeleteAt(lst, idx, i + 1)

\* list.insert(index, item), the index not negative
ListInsert(lst, index, item) ==
  LET at == Min(index, Len(lst))
  IN SubSeq(lst, 1, at) \o <<item>> \o SubSeq(lst, at + 1, Len(lst))

\* the result of an operation: the trees as it leaves them and what it
\* raised, "" when it returned
Ret(h, raised, why) == [h |-> h, raised |-> raised, why |-> why]

\* ParentedTree._setparent(child, index, dry_run) of the tree t
setparent(h, t, child, dry_run) ==
  IF h.parent[child] # NoParent THEN Ret(h, "ValueError", "has a parent")
  ELSE IF dry_run THEN Ret(h, "", "")
  ELSE Ret([h EXCEPT !.parent[child] = t], "", "")

\* ParentedTree._delparent(child, index) of the tree t
delparent(h, t, child) ==
  IF h.parent[child] # t THEN Ret(h, "AssertionError", "")
  ELSE Ret([h EXCEPT !.parent[child] = NoParent], "", "")

\* for i, child in enumerate(value): if isinstance(child, Tree):
\* self._setparent(child, ..., dry_run), from the item i on
RECURSIVE SetParents(_, _, _, _, _)
SetParents(h, t, value, i, dry_run) ==
  IF i > Len(value) THEN Ret(h, "", "")
  ELSE IF value[i] = Leaf THEN SetParents(h, t, value, i + 1, dry_run)
  ELSE LET r == setparent(h, t, value[i], dry_run)
       IN IF r.raised # "" THEN r
          ELSE SetParents(r.h, t, value, i + 1, dry_run)

\* for i in range(...): if isinstance(self[i], Tree):
\* self._delparent(self[i], i), from the k-th index of idx on
RECURSIVE DelParents(_, _, _, _)
DelParents(h, t, idx, k) ==
  IF k > Len(idx) THEN Ret(h, "", "")
  ELSE IF h.kids[t][idx[k] + 1] = Leaf THEN DelParents(h, t, idx, k + 1)
  ELSE LET r == delparent(h, t, h.kids[t][idx[k] + 1])
       IN IF r.raised # "" THEN r ELSE DelParents(r.h, t, idx, k + 1)

\* list.append(child)
ListAppend(h, t, child) == [h EXCEPT !.kids[t] = Append(h.kids[t], child)]

\* AbstractParentedTree.append
append(h, t, child) ==
  LET r == IF child = Leaf THEN Ret(h, "", "") ELSE setparent(h, t, child, FALSE)
  IN IF r.raised # "" THEN r ELSE Ret(ListAppend(r.h, t, child), "", "")

\* AbstractParentedTree.extend, from the item i of children on
RECURSIVE extend(_, _, _, _)
extend(h, t, children, i) ==
  IF i > Len(children) THEN Ret(h, "", "")
  ELSE LET r == append(h, t, children[i])
       IN IF r.raised # "" THEN r ELSE extend(r.h, t, children, i + 1)

\* AbstractParentedTree.insert
insert(h, t, index, child) ==
  LET i1 == IF index < 0 THEN index + Len(h.kids[t]) ELSE index
      i2 == IF i1 < 0 THEN 0 ELSE i1
      r == IF child = Leaf THEN Ret(h, "", "") ELSE setparent(h, t, child, FALSE)
  IN IF r.raised # "" THEN r
     ELSE Ret([r.h EXCEPT !.kids[t] = ListInsert(h.kids[t], i2, child)], "", "")

\* del ptree[i] and ptree.pop(i) on the list of children
DeleteItem(h, t, index) ==
  LET i1 == IF index < 0 THEN index + Len(h.kids[t]) ELSE index
  IN IF i1 < 0 \/ i1 >= Len(h.kids[t]) THEN Ret(h, "IndexError", "")
     ELSE LET r == DelParents(h, t, <<i1>>, 1)
          IN IF r.raised # "" THEN r
             ELSE Ret([r.h EXCEPT !.kids[t] = DeleteAt(h.kids[t], <<i1>>, 1)],
                      "", "")

\* AbstractParentedTree.pop
pop(h, t, index) == DeleteItem(h, t, index)

\* AbstractParentedTree.remove: the first child equal to child
remove(h, t, child) ==
  IF \A i \in 1..Len(h.kids[t]) : h.kids[t][i] # child
    THEN Ret(h, "ValueError", "not in list")
  ELSE DeleteItem(h, t, (CHOOSE i \in 1..Len(h.kids[t]) :
                           /\ h.kids[t][i] = child
                           /\ \A j \in 1..(i - 1) : h.kids[t][j] # child) - 1)

\* AbstractParentedTree.__delitem__ with a slice; the children whose parent
\* is cleared are those at range(start, stop, step) of slice_bounds
delitem_slice(h, t, sl) ==
  LET b == slice_bounds(Len(h.kids[t]), sl)
      r == DelParents(h, t, Range(b.start, b.stop, b.step), 1)
  IN IF r.raised # "" THEN r
     ELSE Ret([r.h EXCEPT !.kids[t] =
                 DeleteAt(h.kids[t], SliceIndices(Len(h.kids[t]), sl), 1)],
              "", "")

\* AbstractParentedTree.__delitem__ with an int
delitem(h, t, index) == DeleteItem(h, t, index)

\* AbstractParentedTree.__setitem__ with an int
setitem(h, t, index, value) ==
  LET i1 == IF index < 0 THEN index + Len(h.kids[t]) ELSE index
  IN IF i1 < 0 \/ i1 >= Len(h.kids[t]) THEN Ret(h, "IndexError", "")
     ELSE IF value = h.kids[t][i1 + 1] THEN Ret(h, "", "")
     ELSE LET r1 == IF value = Leaf THEN Ret(h, "", "")
                    ELSE setparent(h, t, value, FALSE)
              r2 == IF r1.raised # "" THEN r1 ELSE DelParents(r1.h, t, <<i1>>, 1)
          IN IF r2.raised # "" THEN r2
             ELSE Ret([r2.h EXCEPT !.kids[t][i1 + 1] = value], "", "")

\* list.__setitem__(slice, value): a slice of step 1 is replaced by the
\* value, a slice of another step takes as many items as it names
RECURSIVE AssignAt(_, _, _, _)
AssignAt(lst, idx, value, k) ==
  IF k > Len(idx) THEN lst
  ELSE AssignAt([lst EXCEPT ![idx[k] + 1] = value[k]], idx, value, k + 1)

ListSetSlice(lst, sl, value) ==
  LET b == slice_indices(Len(lst), sl)
  IN IF b.step = 1
       THEN [ok |-> TRUE,
             lst |-> SubSeq(lst, 1, b.start) \o value
                     \o SubSeq(lst, Max(b.start, b.stop) + 1, Len(lst))]
     ELSE IF Len(SliceIndices(Len(lst), sl)) # Len(value)
       THEN [ok |-> FALSE, lst |-> lst]
     ELSE [ok |-> TRUE,
           lst |-> AssignAt(lst, SliceIndices(Len(lst), sl), value, 1)]

\* AbstractParentedTree.__setitem__ with a slice
setitem_slice(h, t, sl, value) ==
  LET b == slice_bounds(Len(h.kids[t]), sl)
      dry == SetParents(h, t, value, 1, TRUE)
      r1 == IF dry.raised # "" THEN dry
            ELSE DelParents(h, t, Range(b.start, b.stop, b.step), 1)
      r2 == IF r1.raised # "" THEN r1 ELSE SetParents(r1.h, t, value, 1, FALSE)
      set == ListSetSlice(h.kids[t], sl, value)
  IN IF r2.raised # "" THEN r2
     ELSE IF ~set.ok THEN Ret(r2.h, "ValueError", "size")
     ELSE Ret([r2.h EXCEPT !.kids[t] = set.lst], "", "")

\* ParentedTree(label, children): the new tree is t
NewParentedTree(h, t, children) ==
  LET h1 == [h EXCEPT !.parent[t] = NoParent, !.kids[t] = children]
      dry == SetParents(h1, t, children, 1, TRUE)
  IN IF dry.raised # "" THEN Ret(h, dry.raised, dry.why)
     ELSE SetParents(h1, t, children, 1, FALSE)

\* the trees as they are
Heap == [kids |-> kids, parent |-> parent_of]

\* the trees that hold the tree t: t, its parents in kids, their parents
RECURSIVE Holders(_, _)
Holders(ts, n) ==
  IF n = 0 THEN ts
  ELSE Holders(ts \cup {p \in Nodes : \E i \in 1..Len(kids[p]) : kids[p][i] \in ts},
               n - 1)

\* the children given to an operation of the tree t: leaves and trees
\* constructed; a tree is not given itself or a tree that holds it
Items(t) == (made \ Holders({t}, MaxNodes)) \cup {Leaf}

ItemLists(t, n) == UNION {[1..k -> Items(t)] : k \in 0..n}

\* the children given to the constructor: trees constructed
TreeLists(n) == UNION {[1..k -> made] : k \in 0..n}

\* the slices given to the operations
Slices ==
  {PySlice(NoIndex, NoIndex, NoIndex), PySlice(0, 1, NoIndex),
   PySlice(1, NoIndex, NoIndex), PySlice(NoIndex, NoIndex, 0 - 1),
   PySlice(NoIndex, NoIndex, 2), PySlice(1, 0, 0 - 1), PySlice(0 - 1, NoIndex, NoIndex)}

\* the indices given to the operations
Indices == {0 - 1, 0, 1}

\* the operation op was applied and gave r
TreeDone(op, r) ==
  /\ \A t \in Nodes : Len(r.h.kids[t]) <= MaxKids
  /\ kids' = r.h.kids
  /\ parent_of' = r.h.parent
  /\ tree_op' = [op |-> op, raised |-> r.raised, why |-> r.why]
  /\ UNCHANGED <<pc, cache, grammar, parser, parseVars, patVars, conVars,
                 xformVars, labelVars, lexVars, itree, objVars>>

\* ParentedTree(label, children) is called; the tree it makes can be reached
\* when the constructor returns it and when a child points at it
Constructor(children) ==
  /\ made # Nodes
  /\ LET t == CHOOSE n \in Nodes \ made : \A m \in Nodes \ made : n <= m
         r == NewParentedTree(Heap, t, children)
     IN /\ TreeDone("constructor", r)
        /\ made' = IF r.raised = "" \/ r.h # Heap THEN made \cup {t} ELSE made
  /\ UNCHANGED n_ops

\* an operation is applied to the tree t
TreeOp(op, r) ==
  /\ n_ops < MaxTreeOps
  /\ n_ops' = n_ops + 1
  /\ TreeDone(op, r)
  /\ UNCHANGED made

NextTree ==
  \/ \E children \in TreeLists(2) : Constructor(children)
  \/ \E t \in made : \E child \in Items(t) :
       TreeOp("append", append(Heap, t, child))
  \/ \E t \in made : \E children \in ItemLists(t, 2) :
       TreeOp("extend", extend(Heap, t, children, 1))
  \/ \E t \in made, index \in Indices : \E child \in Items(t) :
       TreeOp("insert", insert(Heap, t, index, child))
  \/ \E t \in made, index \in Indices : TreeOp("pop", pop(Heap, t, index))
  \/ \E t \in made : \E child \in Items(t) :
       TreeOp("remove", remove(Heap, t, child))
  \/ \E t \in made, index \in Indices : \E value \in Items(t) :
       TreeOp("setitem", setitem(Heap, t, index, value))
  \/ \E t \in made, sl \in Slices : \E value \in ItemLists(t, 2) :
       TreeOp("setitem_slice", setitem_slice(Heap, t, sl, value))
  \/ \E t \in made, index \in Indices :
       TreeOp("delitem", delitem(Heap, t, index))
  \/ \E t \in made, sl \in Slices :
       TreeOp("delitem_slice", delitem_slice(Heap, t, sl))

SpecTree == Init /\ [][NextTree]_vars

(***************************************************************************)
(* ImmutableTree.  Its children are leaves: strings, and a list, which has *)
(* no hash.  The hash is modelled by the tuple that is hashed.             *)
(***************************************************************************)

\* a child that has no hash
Unhashable == "[]"

\* hash((self._label, tuple(self)))
Hash(label, ch) == <<label, ch>>

\* ImmutableTree(node, children)
ImmutableTree(node, children) ==
  IF \E i \in 1..Len(children) : children[i] = Unhashable
    THEN [ok |-> FALSE, raised |-> "ValueError"]
  ELSE [ok |-> TRUE,
        tree |-> [label |-> node, ch |-> children, hash |-> Hash(node, children)]]

\* the methods that ImmutableTree defines to raise
ImmutableTreeRaises ==
  {"__setitem__", "__delitem__", "__iadd__", "__imul__", "append", "extend",
   "pop", "remove", "reverse", "sort", "set_label"}

\* list.insert(index, item)
list_insert(lst, index, item) ==
  ListInsert(lst, Max(0, IF index < 0 THEN index + Len(lst) ELSE index), item)

ImmutableLabels == {"S", "NP"}

ImmutableItems == {"a", "b", Unhashable}

ImmutableLists == UNION {[1..n -> ImmutableItems] : n \in 0..2}

NewImmutableTree(node, children) ==
  /\ pc = "new"
  /\ pc' = IF ImmutableTree(node, children).ok THEN "itree" ELSE "itree_error"
  /\ itree' = IF ImmutableTree(node, children).ok
                THEN ImmutableTree(node, children).tree ELSE None
  /\ UNCHANGED <<cache, grammar, parser, parseVars, patVars, conVars,
                 xformVars, labelVars, lexVars, made, kids, parent_of, tree_op,
                 n_ops, objVars>>

\* the operation op was applied to the ImmutableTree, which is now t
ImmutableDone(op, raised, t) ==
  /\ pc = "itree"
  /\ n_ops < MaxTreeOps
  /\ n_ops' = n_ops + 1
  /\ Len(t.ch) <= MaxKids
  /\ itree' = t
  /\ tree_op' = [op |-> op, raised |-> raised, why |-> ""]
  /\ UNCHANGED <<pc, cache, grammar, parser, parseVars, patVars, conVars,
                 xformVars, labelVars, lexVars, made, kids, parent_of, objVars>>

\* a method of ImmutableTree that raises
ImmutableRaise(op) == ImmutableDone(op, "ValueError", itree)

\* list.insert, which ImmutableTree inherits
ImmutableInsert(index, item) ==
  ImmutableDone("insert", "",
                [itree EXCEPT !.ch = list_insert(itree.ch, index, item)])

\* list.clear, which ImmutableTree inherits
ImmutableClear == ImmutableDone("clear", "", [itree EXCEPT !.ch = <<>>])

NextImmutable ==
  \/ \E node \in ImmutableLabels, children \in ImmutableLists :
       NewImmutableTree(node, children)
  \/ \E op \in ImmutableTreeRaises : ImmutableRaise(op)
  \/ \E index \in Indices, item \in ImmutableItems : ImmutableInsert(index, item)
  \/ ImmutableClear

SpecImmutable == Init /\ [][NextImmutable]_vars

(***************************************************************************)
(* parse over objects.  A list or a Tree is an object of the heap, a       *)
(* sequence of objects; a child that is a tree is a reference, the index   *)
(* of its object together with its label, which parse only reads.  The     *)
(* strings of the ChunkString are computed as above.                       *)
(***************************************************************************)
\* a reference to the tree at index id, whose label is label
Ref(label, id) == [k |-> "tree", label |-> label, id |-> id]

IsRef(x) == x.k = "tree" /\ "id" \in DOMAIN x

\* a tree that to_chunkstruct built and that is no object of the heap yet
IsNewTree(x) == x.k = "tree" /\ "ch" \in DOMAIN x

\* Tree(label, children): list.__init__ copies the children into a new object
NewTree(h, label, children) ==
  [h |-> Append(h, Tree(label, children)), id |-> Len(h) + 1]

\* the Tree(chunk_label, subsequence) of to_chunkstruct are new objects, the
\* other pieces are the tokens and the references that ChunkString copied
RECURSIVE NewGroups(_, _, _)
NewGroups(h, pieces, i) ==
  IF i > Len(pieces) THEN [h |-> h, pieces |-> pieces]
  ELSE IF IsNewTree(pieces[i])
    THEN NewGroups(Append(h, pieces[i]),
                   [pieces EXCEPT ![i] = Ref(pieces[i].label, Len(h) + 1)],
                   i + 1)
  ELSE NewGroups(h, pieces, i + 1)

\* a variant that puts the pieces into the tree given to ChunkString
RootInPlace(h, t, g) ==
  [ok |-> TRUE, h |-> [g.h EXCEPT ![t].ch = g.pieces], id |-> t]

\* the end of to_chunkstruct, return Tree(self._root_label, pieces): t is
\* the tree given to ChunkString, g the heap and the pieces with the groups
RootTree(h, t, g) ==
  [ok |-> TRUE, h |-> Append(g.h, Tree(h[t].label, g.pieces)),
   id |-> Len(g.h) + 1]

\* chunkstr.to_chunkstruct(chunk_label) over objects; r is what it gives
\* over values, when it raises no object is made
ObjToChunkStruct(h, t, r) ==
  IF r.ok THEN RootTree(h, t, NewGroups(h, r.tree.ch, 1))
  ELSE [ok |-> FALSE, h |-> h, id |-> t]

\* the loop over the rules of RegexpChunkParser.parse from rule i on
RECURSIVE ApplyRules(_, _, _)
ApplyRules(r, rules, i) ==
  IF ~r.ok \/ i > Len(rules) THEN r
  ELSE ApplyRules(apply_transform(r.cs, rules[i].regexp), rules, i + 1)

\* RegexpChunkParser.parse from ChunkString(chunk_struct) on, t is the tree
ObjChunked(h, t, stage, r) ==
  IF r.ok THEN ObjToChunkStruct(h, t, to_chunkstruct(r.cs, stage.chunk_label))
  ELSE [ok |-> FALSE, h |-> h, id |-> t]

\* RegexpChunkParser.parse from the wrapping on: w is the heap and the tree
ObjWrapped(w, stage) ==
  ObjChunked(w.h, w.id, stage,
             ApplyRules([ok |-> TRUE, cs |-> ChunkString(w.h[w.id], 1)],
                        stage.rules, 1))

\* RegexpChunkParser.parse(chunk_struct) where chunk_struct is object c
ObjStageParse(h, stage, c) ==
  IF Len(h[c].ch) = 0
    THEN [ok |-> TRUE] @@ NewTree(h, stage.root_label, <<>>)
  ELSE IF IsTree(h[c]) THEN ObjWrapped([h |-> h, id |-> c], stage)
  ELSE ObjWrapped(NewTree(h, stage.root_label, h[c].ch), stage)

NP == <<"N", "P">>

\* the objects parse is called with: the lists of tokens, a list that holds
\* a tree, and trees with and without a subtree
ObjInputs ==
  {[h |-> <<PyList(toks)>>, ref |-> 1] : toks \in AllTokenLists} \cup
  {[h |-> <<Tree(ROOT, toks)>>, ref |-> 1] : toks \in TokenLists(0) \cup TokenLists(2)} \cup
  {[h |-> <<Tree(NP, <<Token(3, <<"N">>)>>),
            Tree(ROOT, <<Token(1, <<"D">>), Token(2, <<"N">>), Ref(NP, 1)>>)>>,
    ref |-> 2],
   [h |-> <<Tree(NP, <<Token(1, <<"D">>), Token(2, <<"N">>)>>),
            Tree(ROOT, <<Token(0, <<"V">>), Ref(NP, 1), Token(3, <<"N">>)>>)>>,
    ref |-> 2],
   [h |-> <<Tree(NP, <<Token(2, <<"N">>)>>),
            PyList(<<Token(1, <<"D">>), Ref(NP, 1)>>)>>,
    ref |-> 2]}

ObjGrammars == {GrammarNP, GrammarCascade, GrammarEmpty, GrammarSplice}

\* RegexpParser.parse(chunk_struct) is called with an object
ObjParseCall(o) ==
  /\ pc = "ready"
  /\ pc' = "obj_loop"
  /\ heap' = o.h
  /\ obj_in' = [ref |-> o.ref, before |-> o.h]
  /\ obj_cur' = o.ref
  /\ loop_i' = 1
  /\ stage_i' = 1
  /\ UNCHANGED <<cache, grammar, parser, input, chunk_struct, rule_i, chunkstr,
                 calls, rets, patVars, conVars, xformVars, labelVars, lexVars,
                 treeVars>>

ObjStaged(r) ==
  /\ heap' = r.h
  /\ IF r.ok THEN obj_cur' = r.id /\ NextStage /\ pc' = pc
     ELSE pc' = "obj_error" /\ UNCHANGED <<obj_cur, loop_i, stage_i>>

\* chunk_struct = parser.parse(chunk_struct) in the loops of
\* RegexpParser.parse
ObjStage ==
  /\ pc = "obj_loop"
  /\ LoopsLeft
  /\ ObjStaged(ObjStageParse(heap, parser.stages[stage_i], obj_cur))
  /\ UNCHANGED <<cache, grammar, parser, input, chunk_struct, rule_i, chunkstr,
                 calls, rets, obj_in, patVars, conVars, xformVars, labelVars,
                 lexVars, treeVars>>

\* RegexpParser.parse returns chunk_struct
ObjReturn ==
  /\ pc = "obj_loop"
  /\ ~LoopsLeft
  /\ pc' = "obj_done"
  /\ UNCHANGED <<cache, grammar, parser, parseVars, patVars, conVars,
                 xformVars, labelVars, lexVars, treeVars, objVars>>

NextObjects ==
  \/ \E g \in ObjGrammars, loop \in 1..MaxLoop : Construct(g, loop)
  \/ \E o \in ObjInputs : ObjParseCall(o)
  \/ ObjStage
  \/ ObjReturn

SpecObjects == Init /\ [][NextObjects]_vars

\* the lists of tokens that the parser built is called with
Inputs ==
  IF pc = "ready" /\ grammar = GrammarGroup
    THEN AllTokenLists \cup RunTokenLists
  ELSE IF pc = "ready" /\ grammar = GrammarScenarioB
    THEN AllTokenLists \cup {ScenarioBTokens}
  ELSE IF pc = "ready"
          /\ grammar \in CommentedGrammars \cup IncompleteGrammars
    THEN TokenLists(0) \cup TokenLists(1)
  ELSE AllTokenLists

Next ==
  \/ \E g \in Grammars, loop \in 1..MaxLoop : Construct(g, loop)
  \/ \E tokens \in Inputs : ParseCall(tokens)
  \/ StageCall
  \/ ApplyRule
  \/ StageReturn
  \/ Return
  \/ \E t \in Trees, debug_level \in 0..3 : NewChunkString(t, debug_level)
  \/ ToChunkStruct
  \/ \E p \in TagPatterns : CompilePattern(p)
  \/ \E tags \in AllTagLists \ {<<>>} : MatchPattern(tags)

Spec == Init /\ [][Next]_vars

(***************************************************************************)
(* Properties.                                                             *)
(***************************************************************************)

\* what RegexpParser.parse returned holds these tokens, left to right: with
\* no stage to run it returns the list it was given, not a tree
ReturnedLeaves ==
  IF IsTree(chunk_struct) THEN leaves(chunk_struct) ELSE chunk_struct.ch

\* C1: when RegexpParser.parse returns, for any grammar, any loop count and
\* any list of tokens, the leaves of what it returns are exactly the tokens
\* it was given, in their order, none added, dropped or changed
C1_LeafPreservation == pc = "done" => ReturnedLeaves = input.ch

C1_Witness ==
  /\ pc = "done"
  /\ Len(input.ch) >= 3
  /\ IsTree(chunk_struct)
  /\ Len(chunk_struct.ch) >= 2
  /\ \E k \in DOMAIN chunk_struct.ch : IsTree(chunk_struct.ch[k])

\* C2: after every rule application the braces of the string of the
\* ChunkString are balanced and not nested: they read {}{}...{}
C2_BracesWellFormed ==
  pc = "rules" =>
    has_balanced_non_nested_curly_brackets(get_curly_brackets(chunkstr.str))

\* C3: a ChunkString built from any tree and turned back into a tree with
\* no transformation in between gives the tree it was built from
C3_RoundTrip ==
  pc \in {"converted", "convert_error"} =>
    pc = "converted" /\ rets[1] = chunk_struct

\* the depth of what RegexpParser.parse returned: 1 for a root over tokens
Depth(x) == IF IsTree(x) THEN height(x) - 1 ELSE 1

\* the number of rules of the stages from index k on
RECURSIVE RulesFrom(_, _)
RulesFrom(stages, k) ==
  IF k > Len(stages) THEN 0
  ELSE Len(stages[k].rules) + RulesFrom(stages, k + 1)

\* C4: the depth of what RegexpParser.parse returns is at most 1 plus the
\* loop count times the number of rules; a stage, which has one rule or
\* more, deepens the tree by at most one level, so the depth is at most 1
\* plus the loop count times the number of stages as well
C4_DepthBound ==
  pc = "done" =>
    /\ Depth(chunk_struct) <= 1 + parser.loop * NStages
    /\ Depth(chunk_struct) <= 1 + parser.loop * RulesFrom(parser.stages, 1)

C4_Witness ==
  /\ pc = "done"
  /\ parser.loop = 2
  /\ NStages >= 1
  /\ Depth(chunk_struct) = 1 + parser.loop * NStages

\* C5: RegexpParser.parse returns a tree and its label is the root label
C5_ReturnsRootTree ==
  pc = "done" => IsTree(chunk_struct) /\ chunk_struct.label = ROOT

\* C6: the stages are called in the order of the grammar, all of them in
\* every pass and loop passes in all; the first call gets the tokens given
\* and every other call what the call before it returned; what the last
\* call returned is what RegexpParser.parse returns
C6_StageOrder ==
  pc \in {"loop", "rules", "error", "done"} =>
    /\ Len(calls) - Len(rets) \in {0, 1}
    /\ \A k \in 1..Len(calls) :
         /\ calls[k].stage = ((k - 1) % NStages) + 1
         /\ calls[k].arg = IF k = 1 THEN input ELSE rets[k - 1]
    /\ pc = "done" =>
         /\ Len(calls) = parser.loop * NStages
         /\ Len(rets) = Len(calls)
         /\ chunk_struct = IF rets = <<>> THEN input ELSE rets[Len(rets)]

C6_Witness ==
  /\ pc = "done"
  /\ NStages = 2
  /\ parser.loop = 2
  /\ Len(calls) = 4
  /\ rets[2] # rets[1]
  /\ calls[3].arg = rets[2]

\* C7: a stage called with no token and no tree to parse raises: it does
\* not return a tree
C7_EmptyInputRaises ==
  \A k \in 1..Len(calls) : Len(calls[k].arg.ch) = 0 => Len(rets) < k

\* ---- the reading of a tag pattern over whole tags ----

PieceTagList == <<<<"D">>, <<"N">>, <<"N", "N">>>>

\* one character for every tag
TagCode(t) == IF t = <<"D">> THEN "D" ELSE IF t = <<"N">> THEN "N" ELSE "M"

Coded(tags) == [k \in DOMAIN tags |-> TagCode(tags[k])]

HasEnd(e, p) == \E k \in DOMAIN e : e[k].p = p

\* the regular expression rx matches the whole of s
FullMatch(rx, s) == HasEnd(Ends(rx, s, [p |-> 1, g |-> <<>>]), Len(s) + 1)

\* the set of the codes of the tags that the body of an atom matches
AtomClass(rx) ==
  IF ~rx.ok THEN <<"!">>
  ELSE <<"[", "#">>
       \o Coded(SelectSeq(PieceTagList, LAMBDA t : FullMatch(rx.n, t)))
       \o <<"]">>

\* the atom <X> at index i of p, closed at index j: X is a regular
\* expression of its own over the characters of one tag
RefAtom(p, i, j) ==
  IF j = 0 \/ Count(SubSeq(p, i + 1, j - 1), "<") > 0
    THEN [class |-> <<"!">>, next |-> Len(p) + 1]
  ELSE [class |-> AtomClass(re_compile(SubSeq(p, i + 1, j - 1))),
        next |-> j + 1]

\* p with every atom replaced by the set of the tags it matches; "!" marks
\* a pattern that has no reading over whole tags
RECURSIVE RefPattern(_, _)
RefPattern(p, i) ==
  IF i > Len(p) THEN <<>>
  ELSE IF p[i] = "<"
    THEN LET a == RefAtom(p, i, IndexFrom(p, ">", i + 1))
         IN a.class \o RefPattern(p, a.next)
  ELSE IF p[i] \in {"?", "*", "+", "|", "(", ")", "{", "}", ","} \cup Digits
    THEN <<p[i]>> \o RefPattern(p, i + 1)
  ELSE <<"!">>

RefRegexp(p) == re_compile(RefPattern(remove_spaces(p), 1))

HasReading(p) ==
  /\ Count(RefPattern(remove_spaces(p), 1), "!") = 0
  /\ RefRegexp(p).ok

\* the index in Encode(tags) at which piece k starts
PieceStart(tags, k) ==
  IF k = 1 THEN 1 ELSE Len(Encode(SubSeq(tags, 1, k - 1))) + 1

\* the spans of Encode(tags) that p matches when read over whole tags
RefSpans(p, tags) ==
  {<<PieceStart(tags, i), PieceStart(tags, j)>> :
     <<i, j>> \in {ij \in (1..Len(tags)) \X (2..(Len(tags) + 1)) :
                     /\ ij[1] < ij[2]
                     /\ FullMatch(RefRegexp(p).n,
                                  SubSeq(Coded(tags), ij[1], ij[2] - 1))}}

\* C8: the regular expression compiled from an accepted tag pattern matches
\* a span of the string of a list of tags exactly when the pattern, read as
\* a regular expression over whole tags, matches the tags of that span; an
\* atom <X> never matches across two tags
C8_CompilerSound ==
  pc = "matched" /\ HasReading(pat) =>
    {sp \in spans : sp[1] < sp[2]} = RefSpans(pat, subject)

\* a brace of s from index i on that is not part of a counted repeat {m},
\* {m,}, {m,n} or {,n} (the {m,n} of re with m left out)
RECURSIVE HasStrayBrace(_, _)
HasStrayBrace(s, i) ==
  IF i > Len(s) THEN FALSE
  ELSE IF s[i] = "}" THEN TRUE
  ELSE IF s[i] = "{"
    THEN LET q == ScanQuant(s, i)
         IN IF q.closed /\ (q.m # <<>> \/ q.n # <<>>)
              THEN HasStrayBrace(s, q.next)
            ELSE TRUE
  ELSE HasStrayBrace(s, i + 1)

\* C9: a tag pattern with a brace that is not part of a counted repeat is
\* rejected with ValueError, the empty pair {} included; a rule line with two
\* pairs of braces, X: {<D>} {<N>}, makes the construction of the parser fail
C9_StrayBraceRejected ==
  /\ pc \in {"compiled", "rejected", "matched"}
       /\ HasStrayBrace(remove_spaces(pat), 1)
     => pc = "rejected" /\ compiled.err = "ValueError"
  /\ pc \in {"ready", "ctor_error", "loop", "rules", "error", "done"}
       /\ grammar = GrammarTwoBraced
     => pc = "ctor_error"

C9_Witness ==
  /\ pc = "rejected"
  /\ pat = <<"<", "D", ">", "}", "{", "<", "N", ">">>
  /\ compiled.err = "ValueError"

\* a character of s from index i on that is outside every <...> and is
\* neither an operator ? * + | ( ) nor part of a counted repeat nor a brace
RECURSIVE HasTextOutside(_, _)
HasTextOutside(s, i) ==
  IF i > Len(s) THEN FALSE
  ELSE IF s[i] = "<"
    THEN IndexFrom(s, ">", i + 1) # 0
         /\ HasTextOutside(s, IndexFrom(s, ">", i + 1) + 1)
  ELSE IF s[i] = "{" /\ ScanQuant(s, i).closed
    THEN HasTextOutside(s, ScanQuant(s, i).next)
  ELSE IF s[i] \in {"?", "*", "+", "|", "(", ")", "{", "}"}
    THEN HasTextOutside(s, i + 1)
  ELSE TRUE

\* C10: a tag pattern with text outside its <...> atoms, "." included, is
\* rejected
C10_TextOutsideRejected ==
  pc \in {"compiled", "rejected", "matched"}
    /\ HasTextOutside(remove_spaces(pat), 1)
  => pc = "rejected"

\* the tag of tok starts with N
IsNTag(tok) == tok.k = "tok" /\ tok.tag[1] = "N"

\* the index after the run of tokens with a tag in N that starts at index i
RECURSIVE RunEnd(_, _)
RunEnd(toks, i) ==
  IF i <= Len(toks) /\ IsNTag(toks[i]) THEN RunEnd(toks, i + 1) ELSE i

\* toks from index i on with every maximal run of four tokens or more with
\* a tag in N put in one GROUP tree
RECURSIVE Grouped(_, _)
Grouped(toks, i) ==
  IF i > Len(toks) THEN <<>>
  ELSE IF RunEnd(toks, i) - i >= 4
    THEN <<Tree(<<"G", "R", "O", "U", "P">>, SubSeq(toks, i, RunEnd(toks, i) - 1))>>
         \o Grouped(toks, RunEnd(toks, i))
  ELSE IF RunEnd(toks, i) > i
    THEN SubSeq(toks, i, RunEnd(toks, i) - 1) \o Grouped(toks, RunEnd(toks, i))
  ELSE <<toks[i]>> \o Grouped(toks, i + 1)

ScenarioBTree ==
  Tree(ROOT,
       <<Tree(<<"N", "P">>, <<ScenarioBTokens[1], ScenarioBTokens[2]>>),
         Tree(<<"V", "P">>,
              <<Tree(<<"V">>, <<ScenarioBTokens[3]>>),
                Tree(<<"P", "P">>,
                     <<Tree(<<"P">>, <<ScenarioBTokens[4]>>),
                       Tree(<<"N", "P">>, <<ScenarioBTokens[5], ScenarioBTokens[6]>>)>>),
                Tree(<<"N", "P">>, <<ScenarioBTokens[7], ScenarioBTokens[8]>>)>>),
         Tree(<<"V", "P">>, <<Tree(<<"V">>, <<ScenarioBTokens[9]>>)>>)>>)

ScenarioB ==
  /\ pc \in {"loop", "rules", "error", "done"}
  /\ grammar = GrammarScenarioB
  /\ input.ch = ScenarioBTokens
  /\ parser.loop = 1

C13_CommentsSkipped ==
  \A k \in 0..Len(GrammarTwoRules), line \in SkippedLines :
    pc \in {"ready", "ctor_error"}
      /\ grammar = InsertAt(GrammarTwoRules, k, line)
    => /\ pc = "ready"
       /\ parser.stages
            = RegexpParser(<<>>, GrammarTwoRules, ROOT, parser.loop).parser.stages

\* C14: the rule line NP: <D>?<N>+, without braces around the pattern, is
\* accepted as the line NP: {<D>?<N>+} is, and gives a parser with the same
\* stages, hence the same tree on every input
C14_BracesOptional ==
  pc \in {"ready", "ctor_error"} /\ grammar = GrammarUnbraced
  => /\ pc = "ready"
     /\ parser.stages
          = RegexpParser(<<>>, GrammarBraced, ROOT, parser.loop).parser.stages

\* C15: a grammar line with an empty label or an empty pattern makes the
\* construction of the parser raise: it is not dropped and gives no rule
C15_EmptyLabelOrPatternRejected ==
  pc \in {"ready", "ctor_error"} /\ grammar \in IncompleteGrammars
  => pc = "ctor_error"

\* the string that the k-th call of a stage starts from
CallString(k) ==
  ChunkString(Wrapped(parser.stages[calls[k].stage], calls[k].arg), 1).str

\* no rule of the stage of the k-th call matches a piece or more of the
\* string that the call starts from
MatchesNowhere(k) ==
  /\ Len(calls[k].arg.ch) > 0
  /\ \A r \in DOMAIN parser.stages[calls[k].stage].rules :
       \A sp \in MatchedSpans(parser.stages[calls[k].stage].rules[r].regexp,
                              CallString(k)) : sp[1] = sp[2]

\* C16: a stage whose rules match nowhere in what it is given returns a
\* tree equal to what it was given (the list of tokens of the first call
\* under the root label) and does not raise; it is stated of the call that
\* has just returned or raised
C16_NoMatchUnchanged ==
  /\ pc = "loop" /\ Len(rets) > 0 /\ MatchesNowhere(Len(rets))
     => rets[Len(rets)]
          = Wrapped(parser.stages[calls[Len(rets)].stage],
                    calls[Len(rets)].arg)
  /\ pc = "error" => ~MatchesNowhere(Len(calls))

C16_Witness ==
  /\ pc = "done"
  /\ Len(input.ch) >= 2
  /\ Len(calls) >= 2
  /\ MatchesNowhere(1)
  /\ MatchesNowhere(2)
  /\ rets[2] = Tree(ROOT, input.ch)

CountUpTo(s, c, i) == Cardinality({k \in 1..i : s[k] = c})

\* s is the string of the pieces with these tags with braces put around
\* some runs of atoms: without its braces it is the string of the atoms,
\* every "{" stands before an atom and every "}" after one, and the braces
\* open and close in turn
IsBracketing(tags, s) ==
  /\ SelectSeq(s, LAMBDA c : c \notin {"{", "}"}) = Encode(tags)
  /\ \A i \in 1..Len(s) :
       /\ s[i] = "{" => i < Len(s) /\ s[i + 1] = "<"
       /\ s[i] = "}" => i > 1 /\ s[i - 1] = ">"
       /\ CountUpTo(s, "{", i) - CountUpTo(s, "}", i) \in {0, 1}
  /\ CountUpTo(s, "{", Len(s)) = CountUpTo(s, "}", Len(s))

\* C18: at debug level 3 apply_transform raises for every transformer whose
\* output is not a bracketing of the pieces (text outside the atoms, braces
\* unbalanced or nested, a tag changed, added or removed)
C18_InvalidOutputRaises ==
  pc = "chunkstring" /\ n_xforms > 0 /\ chunkstr.debug = 3
    /\ ~IsBracketing(Tags(chunkstr.pieces), xform.out)
  => xform.raised

\* C19: when apply_transform raises, the string of the ChunkString is the
\* one it had before the call
C19_RaiseLeavesString ==
  pc = "chunkstring" /\ n_xforms > 0 /\ xform.raised
  => chunkstr.debug \in {2, 3} /\ chunkstr.str = xform.before

C19_Witness ==
  /\ pc = "chunkstring"
  /\ n_xforms = 2
  /\ xform.raised
  /\ chunkstr.debug = 2
  /\ \E i \in 1..Len(xform.before) : xform.before[i] = "{"
  /\ chunkstr.str = xform.before

\* C20: as_token_label returns a string of the characters A-Z, 0-9 and "-"
\* that does not start with a digit or a dash, does not end with a dash and
\* holds no two dashes in a row
C20_LabelCanonical ==
  pc = "labelled"
  => /\ \A i \in 1..Len(label_out) :
          label_out[i] \in UpperLetters \cup Digits \cup {"-"}
     /\ label_out # <<>>
        => /\ label_out[1] \notin Digits \cup {"-"}
           /\ label_out[Len(label_out)] # "-"
     /\ \A i \in 1..(Len(label_out) - 1) :
          ~(label_out[i] = "-" /\ label_out[i + 1] = "-")

\* C21: the lexer labels each token with the label of the first matcher, in
\* list order, whose regexp matches the value of the token; a token that no
\* regexp matches keeps the label it was given, unset when it had none; the
\* tokens yielded are the tokens given, in their order, one for each
FirstHit(regexps, value) ==
  {k \in 1..Len(regexps) :
     /\ Matches(regexps[k].match, value)
     /\ \A j \in 1..(k - 1) : ~Matches(regexps[j].match, value)}

C21_FirstMatchLabels ==
  pc \in {"lexing", "lexed"} =>
    /\ yielded = [i \in 1..Len(yielded) |-> i]
    /\ Len(lex_toks) = Len(given)
    /\ pc = "lexed" => Len(yielded) = Len(given)
    /\ \A i \in 1..Len(yielded) :
         /\ lex_toks[i].value = given[i].value
         /\ \A k \in FirstHit(lexer.regexps, given[i].value) :
              lex_toks[i].label = Str(lexer.regexps[k].label)
         /\ FirstHit(lexer.regexps, given[i].value) = {} =>
              lex_toks[i].label = given[i].label

\* two tokens were lexed: one that two matchers with different labels
\* match, one without a label that no matcher matches
C21_Witness ==
  /\ pc = "lexed"
  /\ \E i, j \in 1..Len(lex_toks) :
       /\ \E k, l \in 1..Len(lexer.regexps) :
            /\ k < l
            /\ Matches(lexer.regexps[k].match, given[i].value)
            /\ Matches(lexer.regexps[l].match, given[i].value)
            /\ lexer.regexps[k].label # lexer.regexps[l].label
       /\ FirstHit(lexer.regexps, given[j].value) = {}
       /\ given[j].label = None
       /\ lex_toks[j].label = None

\* C22: a Lexer can be constructed from matchers of which some are
\* callables: the construction succeeds when every matcher is a callable or
\* a string that is a regular expression
C22_CallableMatcherConstructs ==
  pc \in {"lexer", "lexer_error"} =>
    ((\A i \in 1..Len(matchers) :
        matchers[i].callable \/ re_compile(matchers[i].regexp).ok)
     => lexer.ok)

\* C23: every operation that changes the structure of a ParentedTree keeps
\* the parent pointers consistent: when every child that is a tree has its
\* parent for _parent and every tree that is no child has no _parent, the
\* same holds after an operation that returns
ChildOf(c, p) == \E i \in 1..Len(kids[p]) : kids[p][i] = c

Consistent ==
  \A c \in made :
    /\ \A p \in made : ChildOf(c, p) => parent_of[c] = p
    /\ (\A p \in made : ~ChildOf(c, p)) => parent_of[c] = NoParent

C23_ParentPointersConsistent ==
  [][(Consistent /\ tree_op'.raised = "") => Consistent']_vars

\* C28: an operation that inserts a subtree that has a parent, or the same
\* subtree twice, raises ValueError and changes nothing: the lists of
\* children and the parent pointers are as they were before the call
InsertingOps ==
  {"constructor", "append", "extend", "insert", "setitem", "setitem_slice"}

C28_RefusedInsertChangesNothing ==
  [][(/\ Consistent
      /\ tree_op'.op \in InsertingOps
      /\ tree_op'.raised = "ValueError"
      /\ tree_op'.why = "has a parent")
     => (kids' = kids /\ parent_of' = parent_of)]_vars

\* C29: every operation on an ImmutableTree that would change its children
\* or its label raises and changes nothing: the children, the label and the
\* hash stay what they were at construction
C29_ImmutableTreeNeverChanges ==
  [][(pc = "itree" /\ pc' = "itree")
     => (tree_op'.raised # "" /\ itree' = itree)]_vars

\* the string without its braces
Unbraced(s) == SelectSeq(s, LAMBDA c : c \notin {"{", "}"})

\* C24: the pieces of a ChunkString are those it was built from, and after
\* every rule application the atoms of its string, left to right, are the
\* tags of the pieces, one atom for each piece
C24_AtomsArePieces ==
  pc = "rules" =>
    /\ chunkstr.pieces =
         Wrapped(parser.stages[stage_i], calls[Len(calls)].arg).ch
    /\ Unbraced(chunkstr.str) = Encode(Tags(chunkstr.pieces))

\* the number of characters of the atoms of s before index i
AtomOffset(s, i) ==
  (i - 1) - CountUpTo(s, "{", i - 1) - CountUpTo(s, "}", i - 1)

\* the groups of s: the atoms between a "{" and the next brace, a "}", as
\* <<first, next>> offsets in the string of the atoms
GroupsOf(s) ==
  {<<AtomOffset(s, p[1]), AtomOffset(s, p[2])>> :
     p \in {q \in (1..Len(s)) \X (1..Len(s)) :
              /\ q[1] < q[2]
              /\ s[q[1]] = "{"
              /\ s[q[2]] = "}"
              /\ \A k \in (q[1] + 1)..(q[2] - 1) : s[k] \notin {"{", "}"}}}

\* C25: a chunk rule applied to a string that has groups leaves every group
\* as it was, the same atoms between the same braces: no group is moved,
\* split or wrapped
C25_GroupsKept ==
  [][(/\ pc = "rules"
      /\ pc' = "rules"
      /\ has_balanced_non_nested_curly_brackets(get_curly_brackets(chunkstr.str))
      /\ Unbraced(chunkstr'.str) = Unbraced(chunkstr.str))
     => (/\ has_balanced_non_nested_curly_brackets(
              get_curly_brackets(chunkstr'.str))
         /\ GroupsOf(chunkstr.str) \subseteq GroupsOf(chunkstr'.str))]_vars

\* s holds a group without an atom
HasEmptyGroup(s) == \E i \in 1..(Len(s) - 1) : s[i] = "{" /\ s[i + 1] = "}"

\* a tree below x has no child
RECURSIVE HasEmptySubtree(_)
HasEmptySubtree(x) ==
  /\ x.k \in {"tree", "list"}
  /\ \E i \in 1..Len(x.ch) :
       /\ IsTree(x.ch[i])
       /\ x.ch[i].ch = <<>> \/ HasEmptySubtree(x.ch[i])

C27_TreeOnlyFromBracketing ==
  pc = "converted" /\ chunkstr.debug >= 1
  => IsBracketing(Tags(chunkstr.pieces), chunkstr.str)

\* the objects that the tree or the list at id holds, itself included
RECURSIVE ObjReach(_, _, _)
ObjReach(h, ids, n) ==
  IF n = 0 THEN ids
  ELSE ObjReach(h,
                ids \cup {h[i].ch[j].id :
                            <<i, j>> \in {<<i, j>> \in ids \X (1..(MaxTokens + 4)) :
                              j <= Len(h[i].ch) /\ IsRef(h[i].ch[j])}},
                n - 1)

====
